---- MODULE Spec2Model ----
(***************************************************************************)
(* Model of the SQL-dump parsing programs of the repository:               *)
(*   - FileSQLAdapter                 (src/file_sql_adapter.py)            *)
(*   - sql_smart_importer             (src/scripts/sql_smart_importer.py)  *)
(*   - mysql_auto_importer.SQLParser  (src/scripts/mysql_auto_importer.py) *)
(* Text is a TLA+ string; the character at position i of s is the          *)
(* one-character string SubSeq(s, i, i).  Regular expressions of the       *)
(* source are modelled by scanners that return what Python's re returns.   *)
(***************************************************************************)
EXTENDS Integers, Sequences, FiniteSets, TLC

(***************************************************************************)
(* Python str / re primitives                                              *)
(***************************************************************************)
\* s[i-1:i] of Python: the character at 1-based position i, "" outside the string
Ch(s, i) == IF 1 <= i /\ i <= Len(s) THEN SubSeq(s, i, i) ELSE ""

UpperChars == "ABCDEFGHIJKLMNOPQRSTUVWXYZ"
LowerChars == "abcdefghijklmnopqrstuvwxyz"
DigitChars == "0123456789"

CharsOf(s) == {Ch(s, i) : i \in 1..Len(s)}

\* regex class \s (also the characters str.strip() removes)
IsSpace(c) == c \in {" ", "\n", "\t", "\r"}

IsDigit(c) == c \in CharsOf(DigitChars)

\* regex class \w
IsWord(c) == c \in CharsOf(UpperChars) \cup CharsOf(LowerChars) \cup CharsOf(DigitChars) \cup {"_"}

LowerCh(c) ==
    IF \E i \in 1..Len(UpperChars) : Ch(UpperChars, i) = c
    THEN Ch(LowerChars, CHOOSE i \in 1..Len(UpperChars) : Ch(UpperChars, i) = c)
    ELSE c

UpperCh(c) ==
    IF \E i \in 1..Len(LowerChars) : Ch(LowerChars, i) = c
    THEN Ch(UpperChars, CHOOSE i \in 1..Len(LowerChars) : Ch(LowerChars, i) = c)
    ELSE c

\* str.lower(), computed by halves
RECURSIVE Lower(_)
Lower(s) ==
    IF Len(s) <= 1 THEN LowerCh(s)
    ELSE Lower(SubSeq(s, 1, Len(s) \div 2)) \o Lower(SubSeq(s, Len(s) \div 2 + 1, Len(s)))

\* str.upper(), computed by halves
RECURSIVE Upper(_)
Upper(s) ==
    IF Len(s) <= 1 THEN UpperCh(s)
    ELSE Upper(SubSeq(s, 1, Len(s) \div 2)) \o Upper(SubSeq(s, Len(s) \div 2 + 1, Len(s)))

\* s[i-1:] of Python, for a 1-based i
From(s, i) == SubSeq(s, i, Len(s))

\* s.startswith(p, i-1)
StartsWithAt(s, i, p) == i + Len(p) - 1 <= Len(s) /\ SubSeq(s, i, i + Len(p) - 1) = p

StartsWith(s, p) == StartsWithAt(s, 1, p)

EndsWith(s, p) == Len(p) <= Len(s) /\ SubSeq(s, Len(s) - Len(p) + 1, Len(s)) = p

\* p in s
Contains(s, p) == \E i \in 1..(Len(s) + 1) : StartsWithAt(s, i, p)

\* least index in lo..hi that satisfies P, hi + 1 when none does
FirstIn(lo, hi, P(_)) ==
    IF \E j \in lo..hi : P(j)
    THEN CHOOSE j \in lo..hi : P(j) /\ \A k \in lo..(j - 1) : ~P(k)
    ELSE hi + 1

\* greatest index in lo..hi that satisfies P, lo - 1 when none does
LastIn(lo, hi, P(_)) ==
    IF \E j \in lo..hi : P(j)
    THEN CHOOSE j \in lo..hi : P(j) /\ \A k \in (j + 1)..hi : ~P(k)
    ELSE lo - 1

\* first index >= i of a character that is not white space (Len(s)+1 when none)
SkipSpace(s, i) == IF i > Len(s) THEN i ELSE FirstIn(i, Len(s), LAMBDA j : ~IsSpace(Ch(s, j)))

\* last index <= j of a character that is not white space (0 when none)
SkipSpaceBack(s, j) == LastIn(1, j, LAMBDA k : ~IsSpace(Ch(s, k)))

\* str.strip()
Strip(s) == SubSeq(s, SkipSpace(s, 1), SkipSpaceBack(s, Len(s)))

\* first index >= i where p starts (0 when none): s.find(p, i-1) + 1
Find(s, p, i) ==
    LET hi == Len(s) - Len(p) + 1
        j == FirstIn(i, hi, LAMBDA k : StartsWithAt(s, k, p))
    IN  IF i > hi \/ j > hi THEN 0 ELSE j

\* str.rstrip(c) for a one-character c
RStripCh(s, c) == SubSeq(s, 1, LastIn(1, Len(s), LAMBDA k : Ch(s, k) # c))

\* sep.join(parts)
RECURSIVE Join(_, _)
Join(sep, parts) ==
    IF parts = <<>> THEN ""
    ELSE IF Len(parts) = 1 THEN parts[1]
    ELSE parts[1] \o sep \o Join(sep, Tail(parts))

\* s.split(c) for a one-character c, each part stripped
RECURSIVE SplitStrip(_, _, _)
SplitStrip(s, c, start) ==
    LET i == Find(s, c, start) IN
    IF i = 0 THEN <<Strip(From(s, start))>>
    ELSE <<Strip(SubSeq(s, start, i - 1))>> \o SplitStrip(s, c, i + 1)

\* re.sub(r'\s+', ' ', s)
RECURSIVE CollapseSpace(_, _)
CollapseSpace(s, i) ==
    LET p == FirstIn(i, Len(s), LAMBDA j : IsSpace(Ch(s, j))) IN
    IF i > Len(s) THEN ""
    ELSE IF p > Len(s) THEN From(s, i)
    ELSE SubSeq(s, i, p - 1) \o " " \o CollapseSpace(s, SkipSpace(s, p))

\* re.sub(r'/\*.*?\*/', '', s, flags=re.DOTALL)
\* (a comment is the first "/*" with the first "*/" at least two characters later;
\* a "/*" that nothing closes is kept, and so is all the text after it)
RECURSIVE RemoveBlockComments(_, _)
RemoveBlockComments(s, i) ==
    LET p == Find(s, "/*", i)
        q == IF p = 0 THEN 0 ELSE Find(s, "*/", p + 2)
    IN  IF i > Len(s) THEN ""
        ELSE IF p = 0 \/ q = 0 THEN From(s, i)
        ELSE SubSeq(s, i, p - 1) \o RemoveBlockComments(s, q + 2)

\* first index >= i of a line break (Len(s)+1 when none)
LineEnd(s, i) == IF i > Len(s) THEN i ELSE FirstIn(i, Len(s), LAMBDA j : Ch(s, j) = "\n")

\* re.sub(r'--[^\n]*', '', s)
RECURSIVE RemoveLineComments(_, _)
RemoveLineComments(s, i) ==
    LET p == Find(s, "--", i) IN
    IF i > Len(s) THEN ""
    ELSE IF p = 0 THEN From(s, i)
    ELSE SubSeq(s, i, p - 1) \o RemoveLineComments(s, LineEnd(s, p))

(***************************************************************************)
(* Python values held by parsed records: None, str, int, float             *)
(***************************************************************************)
PyNone == [k |-> "None"]
PyStr(s) == [k |-> "str", v |-> s]
PyInt(n) == [k |-> "int", v |-> n]
\* a float is kept exactly, as num / 10^scale with no trailing zero in num
PyFloat(num, scale) == [k |-> "float", num |-> num, scale |-> scale]

DigitVal(c) == (CHOOSE i \in 1..10 : Ch(DigitChars, i) = c) - 1

AllDigits(s, i) == \A j \in i..Len(s) : IsDigit(Ch(s, j))

RECURSIVE DigitsValue(_, _, _)
DigitsValue(s, i, acc) ==
    IF i > Len(s) THEN acc ELSE DigitsValue(s, i + 1, acc * 10 + DigitVal(Ch(s, i)))

HasSign(s) == Ch(s, 1) \in {"+", "-"}
Unsigned(s) == IF HasSign(s) THEN From(s, 2) ELSE s
SignOf(s) == IF Ch(s, 1) = "-" THEN -1 ELSE 1

\* the strings int() accepts: an optional sign and decimal digits
\* (digit-group underscores and non-ASCII digits are outside the model's alphabet)
IsIntLiteral(s) == Len(Unsigned(s)) > 0 /\ AllDigits(Unsigned(s), 1)

IntValue(s) == SignOf(s) * DigitsValue(Unsigned(s), 1, 0)

\* the strings float() accepts among those holding a '.': sign, digits, '.', digits
\* with a digit on at least one side (exponents are outside the model's alphabet)
IsFloatLiteral(s) ==
    LET u == Unsigned(s)
        d == Find(u, ".", 1)
    IN  /\ d # 0
        /\ AllDigits(SubSeq(u, 1, d - 1), 1)
        /\ AllDigits(From(u, d + 1), 1)
        /\ Len(u) > 1

DropTrailingZeros(f) == RStripCh(f, "0")

FloatValue(s) ==
    LET u == Unsigned(s)
        d == Find(u, ".", 1)
        frac == DropTrailingZeros(From(u, d + 1))
    IN  PyFloat(SignOf(s) * DigitsValue(SubSeq(u, 1, d - 1) \o frac, 1, 0), Len(frac))

RECURSIVE NatToStr(_)
NatToStr(n) == IF n < 10 THEN Ch(DigitChars, n + 1) ELSE NatToStr(n \div 10) \o Ch(DigitChars, (n % 10) + 1)

\* str(n) for an int
IntToStr(n) == IF n < 0 THEN "-" \o NatToStr(-n) ELSE NatToStr(n)

\* re.search(r"'([^']+)'", s).group(1); "" stands for no match (group 1 is never empty)
RECURSIVE SearchQuoted(_, _)
SearchQuoted(s, i) ==
    LET p == Find(s, "'", i)
        q == IF p = 0 THEN 0 ELSE Find(s, "'", p + 1)
    IN  IF p = 0 \/ q = 0 THEN ""
        ELSE IF q = p + 1 THEN SearchQuoted(s, q)
        ELSE SubSeq(s, p + 1, q - 1)

(***************************************************************************)
(* FileSQLAdapter._clean_value and sql_smart_importer.SQLParser.clean_value *)
(* (the two bodies are the same text)                                      *)
(***************************************************************************)
\* clean_value with the string rule tried before the NULL rule and applied to
\* the text between the quotes
clean_value_quotes_first(value) ==
    LET v == Strip(value)
        inner == IF StartsWith(v, "'") /\ EndsWith(v, "'") THEN SubSeq(v, 2, Len(v) - 1) ELSE v
    IN  IF Lower(inner) = "null" THEN PyNone
        ELSE IF StartsWith(v, "N'") \/ StartsWith(v, "n'")
             THEN IF EndsWith(v, "'") THEN PyStr(SubSeq(v, 3, Len(v) - 1)) ELSE PyStr(From(v, 3))
        ELSE IF StartsWith(v, "'") /\ EndsWith(v, "'") THEN PyStr(inner)
        ELSE IF Contains(v, ".") /\ IsFloatLiteral(v) THEN FloatValue(v)
        ELSE IF ~Contains(v, ".") /\ IsIntLiteral(v) THEN PyInt(IntValue(v))
        ELSE PyStr(v)

\* clean_value with a NULL test that minds the letter case and an N' rule that
\* keeps the trailing quote
clean_value_exact_null(value) ==
    LET v == Strip(value) IN
    IF v = "NULL" THEN PyNone
    ELSE IF StartsWith(v, "N'") \/ StartsWith(v, "n'") THEN PyStr(From(v, 3))
    ELSE IF StartsWith(v, "'") /\ EndsWith(v, "'") THEN PyStr(SubSeq(v, 2, Len(v) - 1))
    ELSE IF Contains(v, ".") /\ IsFloatLiteral(v) THEN FloatValue(v)
    ELSE IF ~Contains(v, ".") /\ IsIntLiteral(v) THEN PyInt(IntValue(v))
    ELSE PyStr(v)

clean_value(value) ==
    LET v == Strip(value) IN
    IF Lower(v) = "null" THEN PyNone
    ELSE IF StartsWith(v, "N'") \/ StartsWith(v, "n'")
         THEN IF EndsWith(v, "'") THEN PyStr(SubSeq(v, 3, Len(v) - 1)) ELSE PyStr(From(v, 3))
    ELSE IF StartsWith(v, "'") /\ EndsWith(v, "'") THEN PyStr(SubSeq(v, 2, Len(v) - 1))
    ELSE IF Contains(v, ".") /\ IsFloatLiteral(v) THEN FloatValue(v)
    ELSE IF ~Contains(v, ".") /\ IsIntLiteral(v) THEN PyInt(IntValue(v))
    ELSE IF (StartsWith(Upper(v), "DATE") \/ StartsWith(Upper(v), "TIMESTAMP"))
            /\ SearchQuoted(v, 1) # ""
         THEN PyStr(SearchQuoted(v, 1))
    ELSE PyStr(v)

(***************************************************************************)
(* _parse_single_record / parse_single_record: the scan of one tuple's     *)
(* text into cleaned values                                                *)
(***************************************************************************)
RECURSIVE ScanRecord(_, _, _, _, _, _, _)
ScanRecord(record_str, i, values, current_value, in_quotes, quote_char, paren_depth) ==
    IF i > Len(record_str)
    THEN IF Strip(current_value) # ""
         THEN Append(values, clean_value(Strip(current_value)))
         ELSE values
    ELSE LET char == Ch(record_str, i) IN
         IF char \in {"\"", "'"} /\ (i = 1 \/ Ch(record_str, i - 1) # "\\")
         THEN IF ~in_quotes
              THEN ScanRecord(record_str, i + 1, values, current_value \o char, TRUE, char, paren_depth)
              ELSE IF char = quote_char
              THEN ScanRecord(record_str, i + 1, values, current_value \o char, FALSE, "", paren_depth)
              ELSE ScanRecord(record_str, i + 1, values, current_value \o char, in_quotes, quote_char, paren_depth)
         ELSE IF char = "(" /\ ~in_quotes
         THEN ScanRecord(record_str, i + 1, values, current_value \o char, in_quotes, quote_char, paren_depth + 1)
         ELSE IF char = ")" /\ ~in_quotes
         THEN ScanRecord(record_str, i + 1, values, current_value \o char, in_quotes, quote_char, paren_depth - 1)
         ELSE IF char = "," /\ ~in_quotes /\ paren_depth = 0
         THEN ScanRecord(record_str, i + 1, Append(values, clean_value(Strip(current_value))), "", in_quotes, quote_char, paren_depth)
         ELSE ScanRecord(record_str, i + 1, values, current_value \o char, in_quotes, quote_char, paren_depth)

parse_single_record(record_str) == ScanRecord(record_str, 1, <<>>, "", FALSE, "", 0)

(***************************************************************************)
(* _parse_values_section / parse_values_section                            *)
(***************************************************************************)
\* re.findall(r'\(([^)]+(?:\([^)]*\)[^)]*)*)\)', s): the greedy [^)]+ runs to the
\* first ')' after the '(' and the optional group then matches zero times, so each
\* match is a '(' with the non-empty text up to the next ')'
RECURSIVE FindAllTuples(_, _)
FindAllTuples(s, i) ==
    LET p == Find(s, "(", i)
        q == IF p = 0 THEN 0 ELSE Find(s, ")", p + 1)
    IN  IF p = 0 \/ q = 0 THEN <<>>
        ELSE IF q = p + 1 THEN FindAllTuples(s, p + 1)
        ELSE <<SubSeq(s, p + 1, q - 1)>> \o FindAllTuples(s, q + 1)

RECURSIVE RecordsOf(_)
RecordsOf(matches) ==
    IF matches = <<>> THEN <<>>
    ELSE LET values == parse_single_record(Head(matches)) IN
         (IF values # <<>> THEN <<values>> ELSE <<>>) \o RecordsOf(Tail(matches))

parse_values_section(values_str) == RecordsOf(FindAllTuples(values_str, 1))

(***************************************************************************)
(* _parse_insert_statement / parse_insert_statement                        *)
(***************************************************************************)
\* first index >= i of a character outside [^\s(] (Len(s)+1 when none)
IdentEnd(s, i) ==
    IF i > Len(s) THEN i ELSE FirstIn(i, Len(s), LAMBDA j : IsSpace(Ch(s, j)) \/ Ch(s, j) = "(")

\* re.match(r'insert\s+into\s+([^\s(]+)\s*\(([^)]+)\)\s+values\s*(.+)', s, re.IGNORECASE):
\* ok, and the three groups.  '.' does not match a line break, so group 3 stops at
\* the end of its line; when only white space follows VALUES, \s* gives back one
\* character that is not a line break and group 3 is that white space.
\* p2..p8 are where the pieces of the pattern start: "into", group 1, the white
\* space after it, "(", ")", "values", group 3
MatchInsert(s) ==
    LET At(ls, p2, p3, p4, p5, p6, p7, p8) ==
            IF /\ StartsWithAt(ls, 1, "insert") /\ IsSpace(Ch(s, 7))
               /\ StartsWithAt(ls, p2, "into") /\ IsSpace(Ch(s, p2 + 4))
               /\ p4 > p3
               /\ Ch(s, p5) = "("
               /\ p6 > p5 + 1
               /\ IsSpace(Ch(s, p6 + 1))
               /\ StartsWithAt(ls, p7, "values")
               /\ \/ p8 <= Len(s)
                  \/ \E q \in (p7 + 6)..Len(s) : Ch(s, q) # "\n"
            THEN [ok |-> TRUE,
                  g1 |-> SubSeq(s, p3, p4 - 1),
                  g2 |-> SubSeq(s, p5 + 1, p6 - 1),
                  g3 |-> IF p8 <= Len(s) THEN SubSeq(s, p8, LineEnd(s, p8) - 1) ELSE " "]
            ELSE [ok |-> FALSE]
        To8(ls, p2, p3, p4, p5, p6, p7) == At(ls, p2, p3, p4, p5, p6, p7, SkipSpace(s, p7 + 6))
        To7(ls, p2, p3, p4, p5, p6) == To8(ls, p2, p3, p4, p5, p6, SkipSpace(s, p6 + 1))
        To6(ls, p2, p3, p4, p5) == To7(ls, p2, p3, p4, p5, Find(s, ")", p5 + 1))
        To5(ls, p2, p3, p4) == To6(ls, p2, p3, p4, SkipSpace(s, p4))
        To4(ls, p2, p3) == To5(ls, p2, p3, IdentEnd(s, p3))
        To3(ls, p2) == To4(ls, p2, SkipSpace(s, p2 + 4))
    IN  To3(Lower(s), SkipSpace(s, 7))

\* None of Python
NoParse == [ok |-> FALSE]

\* the dictionary both parsers build from a match of clean_sql
ParsedFrom(clean_sql) ==
    LET Matched(match) ==
            IF ~match.ok THEN NoParse
            ELSE [ok |-> TRUE,
                  table_name |-> Strip(match.g1),
                  columns |-> SplitStrip(Strip(match.g2), ",", 1),
                  records |-> parse_values_section(Strip(match.g3))]
    IN  Matched(MatchInsert(clean_sql))

\* FileSQLAdapter._parse_insert_statement
file_parse_insert_statement(sql_text) ==
    ParsedFrom(Strip(CollapseSpace(sql_text, 1)))

\* sql_smart_importer.SQLParser.parse_insert_statement
smart_parse_insert_statement(sql_text) ==
    ParsedFrom(Strip(CollapseSpace(
        RemoveBlockComments(RemoveLineComments(sql_text, 1), 1), 1)))

(***************************************************************************)
(* Statement splitters of FileSQLAdapter and sql_smart_importer            *)
(***************************************************************************)
\* last index in lo..hi of a line break (0 when none)
LastLineBreak(s, lo, hi) ==
    LET j == LastIn(lo, hi, LAMBDA k : Ch(s, k) = "\n") IN IF j < lo THEN 0 ELSE j

\* re.split(r';\s*(?:\n|$)', s): a ';' matches with the white space after it when
\* that white space runs to the end of the text (then '' is the last part) or holds
\* a line break (then the match ends at its last line break)
RECURSIVE SplitTerminator(_, _, _)
SplitTerminator(s, i, start) ==
    LET t == Find(s, ";", i)
        e == SkipSpace(s, t + 1)
        nl == LastLineBreak(s, t + 1, e - 1)
    IN  IF t = 0 THEN <<From(s, start)>>
        ELSE IF e > Len(s) THEN <<SubSeq(s, start, t - 1), "">>
        ELSE IF nl # 0 THEN <<SubSeq(s, start, t - 1)>> \o SplitTerminator(s, nl + 1, nl + 1)
        ELSE SplitTerminator(s, t + 1, start)

RECURSIVE StripAll(_)
StripAll(parts) == IF parts = <<>> THEN <<>> ELSE <<Strip(Head(parts))>> \o StripAll(Tail(parts))

NonEmpty(p) == p # ""

\* FileSQLAdapter._split_sql_statements
split_sql_statements(text) ==
    LET no_comment == RemoveLineComments(RemoveBlockComments(text, 1), 1)
        parts == StripAll(SplitTerminator(no_comment, 1, 1))
    IN  SelectSeq(parts, NonEmpty)

KeptBySmart(stmt) == stmt # "" /\ ~StartsWith(stmt, "--")

\* the statement split at the head of sql_smart_importer.process_sql_file
smart_split(content) ==
    SelectSeq(StripAll(SplitTerminator(content, 1, 1)), KeptBySmart)

(***************************************************************************)
(* mysql_auto_importer.SQLParser                                           *)
(***************************************************************************)
\* The back-quote character (U+0060) cannot be written in a TLA+ string; the model
\* writes it as '~', which stands for nothing else in any text of the model.
BackQuote == "~"

\* the statement type parse_file gives to a terminated statement
StatementType(sql) ==
    LET sql_upper == Upper(sql) IN
    IF StartsWith(sql_upper, "INSERT") THEN "INSERT"
    ELSE IF StartsWith(sql_upper, "UPDATE") THEN "UPDATE"
    ELSE IF StartsWith(sql_upper, "DELETE") THEN "DELETE"
    ELSE IF StartsWith(sql_upper, "CREATE") THEN "CREATE"
    ELSE IF StartsWith(sql_upper, "DROP") THEN "DROP"
    ELSE IF StartsWith(sql_upper, "ALTER") THEN "ALTER"
    ELSE "OTHER"

\* the test that makes parse_file skip the line starting at i
SkippedLine(text, i) ==
    LET stripped == Strip(SubSeq(text, i, LineEnd(text, i) - 1)) IN
    stripped = "" \/ StartsWith(stripped, "--") \/ StartsWith(stripped, "#")

\* The character loop of parse_file over one line (the line's text with its line
\* break), from position i.  st holds the loop's variables: current_statement,
\* in_string, string_char, and out, the (stmt_type, sql) pairs yielded so far.
RECURSIVE ScanLine(_, _, _)
ScanLine(line, i, st) ==
    IF i > Len(line) THEN st
    ELSE LET char == Ch(line, i)
             opens == ~st.in_string /\ char \in {"'", "\"", BackQuote}
             escaped == st.in_string /\ char = st.string_char /\ Ch(line, i + 1) = st.string_char
             closes == st.in_string /\ char = st.string_char /\ ~escaped
             in_string == IF opens THEN TRUE ELSE IF closes THEN FALSE ELSE st.in_string
             string_char == IF opens THEN char ELSE IF closes THEN "" ELSE st.string_char
             current == st.current_statement \o char
             sql == Strip(current)
             yields == ~in_string /\ char = ";"
         IN  ScanLine(line, IF escaped THEN i + 2 ELSE i + 1,
                      [current_statement |-> IF yields THEN "" ELSE current,
                       in_string |-> in_string,
                       string_char |-> string_char,
                       out |-> IF yields /\ sql # "" /\ sql # ";"
                               THEN Append(st.out, <<StatementType(sql), sql>>)
                               ELSE st.out])

\* The loop of parse_file over the lines of the file from position i
RECURSIVE ScanFile(_, _, _)
ScanFile(text, i, st) ==
    IF i > Len(text) THEN st
    ELSE LET e == LineEnd(text, i) IN
         ScanFile(text, e + 1,
                  IF SkippedLine(text, i) THEN st
                  ELSE ScanLine(SubSeq(text, i, IF e > Len(text) THEN Len(text) ELSE e), 1, st))

\* SQLParser.parse_file: every (stmt_type, sql) it yields, in order; what is left
\* in current_statement after the last line is yielded as OTHER
parse_file(text) ==
    LET st == ScanFile(text, 1, [current_statement |-> "", in_string |-> FALSE,
                                 string_char |-> "", out |-> <<>>])
    IN  IF st.current_statement # "" /\ Strip(st.current_statement) # ""
        THEN Append(st.out, <<"OTHER", Strip(st.current_statement)>>)
        ELSE st.out

\* first index >= i of a character outside \w (Len(s)+1 when none)
WordEnd(s, i) == IF i > Len(s) THEN i ELSE FirstIn(i, Len(s), LAMBDA j : ~IsWord(Ch(s, j)))

\* re.match(r'INSERT\s+INTO\s+`?(\w+)`?\s*\([^)]+\)\s*VALUES\s*(.+);?$', sql,
\*          re.IGNORECASE | re.DOTALL): ok and the two groups.  The greedy (.+) runs
\* to the end of the text, so ;? matches nothing; when only white space follows
\* VALUES, \s* gives back its last character to (.+).
\* p2..p8 are where the pieces of the pattern start: "into", group 1, the text
\* after it, "(", ")", "values", group 2
MatchOptimize(sql) ==
    LET Quote(i) == IF Ch(sql, i) = BackQuote THEN i + 1 ELSE i
        At(ls, p2, p3, p4, p5, p6, p7, p8) ==
            IF /\ StartsWithAt(ls, 1, "insert") /\ IsSpace(Ch(sql, 7))
               /\ StartsWithAt(ls, p2, "into") /\ IsSpace(Ch(sql, p2 + 4))
               /\ p4 > p3
               /\ Ch(sql, p5) = "("
               /\ p6 > p5 + 1
               /\ StartsWithAt(ls, p7, "values")
               /\ p7 + 6 <= Len(sql)
            THEN [ok |-> TRUE,
                  g1 |-> SubSeq(sql, p3, p4 - 1),
                  g2 |-> IF p8 <= Len(sql) THEN From(sql, p8) ELSE From(sql, Len(sql))]
            ELSE [ok |-> FALSE]
        To8(ls, p2, p3, p4, p5, p6, p7) == At(ls, p2, p3, p4, p5, p6, p7, SkipSpace(sql, p7 + 6))
        To7(ls, p2, p3, p4, p5, p6) == To8(ls, p2, p3, p4, p5, p6, SkipSpace(sql, p6 + 1))
        To6(ls, p2, p3, p4, p5) == To7(ls, p2, p3, p4, p5, Find(sql, ")", p5 + 1))
        To5(ls, p2, p3, p4) == To6(ls, p2, p3, p4, SkipSpace(sql, Quote(p4)))
        To4(ls, p2, p3) == To5(ls, p2, p3, WordEnd(sql, p3))
        To3(ls, p2) == To4(ls, p2, Quote(SkipSpace(sql, p2 + 4)))
    IN  To3(Lower(sql), SkipSpace(sql, 7))

\* The tuple capture loop of optimize_insert over values_part: values_list when the
\* loop ends (what is left in current_value is dropped)
RECURSIVE ScanValues(_, _, _, _, _, _)
ScanValues(values_part, i, values_list, current_value, paren_count, in_string) ==
    IF i > Len(values_part) THEN values_list
    ELSE LET char == Ch(values_part, i)
             paren2 == IF ~in_string /\ char = "(" THEN paren_count + 1
                       ELSE IF ~in_string /\ char = ")" THEN paren_count - 1
                       ELSE paren_count
             in_string2 == IF ~in_string THEN char = "'" /\ char # "(" /\ char # ")"
                           ELSE ~(char = "'" /\ (current_value = "" \/ Ch(current_value, Len(current_value)) # "\\"))
             current2 == current_value \o char
         IN  IF paren2 = 0 /\ char = ")"
             THEN ScanValues(values_part, i + 1, Append(values_list, Strip(current2)), "", paren2, in_string2)
             ELSE ScanValues(values_part, i + 1, values_list, current2, paren2, in_string2)

\* re.search(r'\(([^)]+)\)', sql).group(0); "" when there is no match
RECURSIVE FirstParenGroup(_, _)
FirstParenGroup(sql, i) ==
    LET p == Find(sql, "(", i)
        q == IF p = 0 THEN 0 ELSE Find(sql, ")", p + 1)
    IN  IF p = 0 \/ q = 0 THEN ""
        ELSE IF q = p + 1 THEN FirstParenGroup(sql, p + 1)
        ELSE SubSeq(sql, p, q)

\* configured batch size (SQL_BATCH_SIZE, 1000 when unset), scaled down
BATCH_SIZE == 2

\* the statements for values_list[i..] in slices of BATCH_SIZE
RECURSIVE Batches(_, _, _, _)
Batches(table, columns, values_list, i) ==
    IF i > Len(values_list) THEN <<>>
    ELSE LET hi == IF i + BATCH_SIZE - 1 < Len(values_list) THEN i + BATCH_SIZE - 1 ELSE Len(values_list)
             batch_values == SubSeq(values_list, i, hi)
             batch_sql == "INSERT INTO " \o BackQuote \o table \o BackQuote \o " " \o columns
                          \o " VALUES " \o Join(",", batch_values) \o ";"
         IN  <<batch_sql>> \o Batches(table, columns, values_list, i + BATCH_SIZE)

\* SQLParser.optimize_insert
optimize_insert(sql) ==
    LET Slices(table, values_list) ==
            IF Len(values_list) <= BATCH_SIZE THEN <<sql>>
            ELSE Batches(table, FirstParenGroup(sql, 1), values_list, 1)
        Matched(match) ==
            IF ~match.ok THEN <<sql>>
            ELSE Slices(match.g1, ScanValues(RStripCh(match.g2, ";"), 1, <<>>, "", 0, FALSE))
    IN  Matched(MatchOptimize(sql))

(***************************************************************************)
(* Records built by FileSQLAdapter._process_sql_file                       *)
(***************************************************************************)
\* d[k] = v on a Python dict
Put(d, k, v) == (k :> v) @@ d

\* hashlib.sha256(s.encode()).hexdigest(): the digest is kept as the tagged input,
\* i.e. SHA-256 is taken to be free of collisions
sha256(s) == "sha256:" \o s

\* datetime.now().isoformat() at clock reading t
isoformat(t) == "T" \o IntToStr(t)

\* FileSQLAdapter._get_field_mapping
field_mapping ==
    [supplier_name |-> "supplier_name", supplier_short |-> "supplier_short",
     supplier_contact |-> "supplier_contact", supplier_address |-> "supplier_address",
     supplier_phone |-> "supplier_phone", supplier_id |-> "supplier_id",
     customer_name |-> "customer_name", customer_short |-> "customer_short",
     customer_contact |-> "customer_contact", customer_address |-> "customer_address",
     customer_phone |-> "customer_phone", customer_id |-> "customer_id",
     name |-> "employee_name", employee_name |-> "employee_name",
     department_name |-> "department_name", position |-> "position",
     employee_id |-> "employee_id", department_id |-> "department_id",
     work_order_id |-> "work_order_id", order_id |-> "order_id",
     total_amount |-> "total_amount", currency |-> "currency",
     work_order_status |-> "status", status |-> "status",
     planned_start_date |-> "planned_start_date", delivery_date |-> "delivery_date",
     created_time |-> "created_time", updated_time |-> "updated_time",
     remark |-> "remark", address |-> "address", phone |-> "phone", email |-> "email"]

\* field_mapping.get(clean_col, clean_col) for clean_col = column_name.strip().lower()
standard_field(column_name) ==
    LET clean_col == Lower(Strip(column_name)) IN
    IF clean_col \in DOMAIN field_mapping THEN field_mapping[clean_col] ELSE clean_col

\* the loop "for col_idx, column_name in enumerate(columns)" of _process_sql_file,
\* from the 1-based column col
RECURSIVE MapColumns(_, _, _, _)
MapColumns(record_data, columns, record_values, col) ==
    IF col > Len(columns) THEN record_data
    ELSE IF col <= Len(record_values) /\ record_values[col] # PyNone
    THEN MapColumns(Put(record_data, standard_field(columns[col]), record_values[col]),
                    columns, record_values, col + 1)
    ELSE MapColumns(record_data, columns, record_values, col + 1)

\* record_data of _process_sql_file for the record at 0-based record_idx
file_record(file_name, table_name, columns, record_idx, record_values, t) ==
    LET base == [table_name |-> PyStr(table_name),
                 source_file |-> PyStr(file_name),
                 record_index |-> PyInt(record_idx),
                 updated_at |-> PyStr(isoformat(t))]
        pk_components == <<file_name, table_name, IntToStr(record_idx)>>
    IN  MapColumns(Put(base, "pk", PyStr(sha256(Join("::", pk_components)))),
                   columns, record_values, 1)

\* the records _process_sql_file appends for one parsed statement
RECURSIVE file_records(_, _, _, _)
file_records(file_name, parsed, record_idx, t) ==
    IF record_idx >= Len(parsed.records) THEN <<>>
    ELSE <<file_record(file_name, parsed.table_name, parsed.columns, record_idx,
                       parsed.records[record_idx + 1], t)>>
         \o file_records(file_name, parsed, record_idx + 1, t)

(***************************************************************************)
(* Documents built by sql_smart_importer.create_structured_documents       *)
(***************************************************************************)
\* str(value)
RECURSIVE Zeros(_)
Zeros(n) == IF n <= 0 THEN "" ELSE "0" \o Zeros(n - 1)

FloatToStr(f) ==
    LET mag == IF f.num < 0 THEN -f.num ELSE f.num
        digits == NatToStr(mag)
        padded == Zeros(f.scale + 1 - Len(digits)) \o digits
        whole == SubSeq(padded, 1, Len(padded) - f.scale)
        frac == From(padded, Len(padded) - f.scale + 1)
    IN  (IF f.num < 0 THEN "-" ELSE "") \o whole \o "." \o (IF frac = "" THEN "0" ELSE frac)

str(value) ==
    IF value.k = "str" THEN value.v
    ELSE IF value.k = "int" THEN IntToStr(value.v)
    ELSE IF value.k = "float" THEN FloatToStr(value)
    ELSE "None"

\* re.sub(r'[^\w]', '_', s)
RECURSIVE NonWordToUnderscore(_)
NonWordToUnderscore(s) ==
    IF s = "" THEN ""
    ELSE (IF IsWord(Ch(s, 1)) THEN Ch(s, 1) ELSE "_") \o NonWordToUnderscore(From(s, 2))

\* cc_s2t.convert / cc_t2s.convert: OpenCC rewrites only Chinese characters, and
\* the model's texts hold none
cc_convert(s) == s

RECURSIVE Dedup(_, _)
Dedup(xs, seen) ==
    IF xs = <<>> THEN <<>>
    ELSE IF Head(xs) \in seen THEN Dedup(Tail(xs), seen)
    ELSE <<Head(xs)>> \o Dedup(Tail(xs), seen \cup {Head(xs)})

RECURSIVE Reverse(_)
Reverse(xs) == IF xs = <<>> THEN <<>> ELSE Reverse(Tail(xs)) \o <<Head(xs)>>

\* list(set(xs)): the iteration order of a set of str depends on the string hash
\* seed of the process; the model has two seeds, which give opposite orders
set_order(xs, hash_seed) == IF hash_seed = 0 THEN Dedup(xs, {}) ELSE Reverse(Dedup(xs, {}))

\* the loop "for col_idx, column_name in enumerate(columns)" of
\* create_structured_documents from the 1-based column col; acc holds doc,
\* searchable_content and keys, the field keys of doc in insertion order
RECURSIVE DocFields(_, _, _, _)
DocFields(acc, columns, record_values, col) ==
    IF col > Len(columns) THEN acc
    ELSE IF col <= Len(record_values) /\ record_values[col] # PyNone
    THEN LET value == record_values[col]
             field_key == "field_" \o NonWordToUnderscore(Lower(columns[col]))
             text == value.k = "str" /\ Len(value.v) > 0
         IN  DocFields([doc |-> Put(acc.doc, field_key, PyStr(str(value))),
                        keys |-> IF field_key \in DOMAIN acc.doc THEN acc.keys
                                 ELSE Append(acc.keys, field_key),
                        searchable_content |->
                            IF text
                            THEN acc.searchable_content
                                 \o <<str(value), cc_convert(str(value)), cc_convert(str(value))>>
                            ELSE acc.searchable_content],
                       columns, record_values, col + 1)
    ELSE DocFields(acc, columns, record_values, col + 1)

RECURSIVE FieldTexts(_, _)
FieldTexts(doc, keys) ==
    IF keys = <<>> THEN <<>> ELSE <<doc[Head(keys)].v>> \o FieldTexts(doc, Tail(keys))

\* the (doc_id, doc) pair create_structured_documents builds for the record at
\* 0-based record_idx
smart_document(filename, parsed, record_idx, t, hash_seed) ==
    LET base == ("@timestamp" :> PyStr(isoformat(t)))
                @@ [metadata |-> [source_file |-> filename,
                                  table_name |-> parsed.table_name,
                                  record_index |-> record_idx,
                                  total_records |-> Len(parsed.records)]]
        acc == DocFields([doc |-> base, keys |-> <<>>, searchable_content |-> <<>>],
                         parsed.columns, parsed.records[record_idx + 1], 1)
        all_text_content == FieldTexts(acc.doc, acc.keys)
        doc == Put(Put(acc.doc, "searchable_content",
                       PyStr(Join(" ", set_order(acc.searchable_content, hash_seed)))),
                   "all_content",
                   PyStr(Join(" ", set_order(all_text_content \o acc.searchable_content, hash_seed))))
        doc_id == sha256(filename \o "::" \o parsed.table_name \o "::" \o IntToStr(record_idx))
    IN  <<doc_id, doc>>

RECURSIVE smart_documents(_, _, _, _, _)
smart_documents(filename, parsed, record_idx, t, hash_seed) ==
    IF record_idx >= Len(parsed.records) THEN <<>>
    ELSE <<smart_document(filename, parsed, record_idx, t, hash_seed)>>
         \o smart_documents(filename, parsed, record_idx + 1, t, hash_seed)

\* create_structured_documents
create_structured_documents(filename, parsed, t, hash_seed) ==
    IF ~parsed.ok THEN <<>> ELSE smart_documents(filename, parsed, 0, t, hash_seed)

(***************************************************************************)
(* The programs as a state machine: one file is read, split into           *)
(* statements, and the statements are handled one by one.                  *)
(***************************************************************************)
VARIABLES
    prog,          \* the program that runs: "file" (FileSQLAdapter), "smart"
                   \* (sql_smart_importer) or "mysql" (mysql_auto_importer)
    input,         \* what the file's text was written from (see Render)
    content,       \* the decoded text of the file
    hash_seed,     \* the string hash seed of the process
    now,           \* the clock
    pc,            \* "start", "loop", "done" or "failed"
    statements,    \* the statements split from the file
    stmt_idx,      \* how many of them have been handled
    all_records,   \* file: all_records; smart: the (doc_id, doc) pairs indexed
    log,           \* what the program has reported
    optimized,     \* mysql: what optimize_insert returned for the last INSERT
    committed,     \* mysql: the statements executed and committed
    progress,      \* mysql: ProgressTracker.progress
    first_run,     \* what the earlier run on the same file returned, when the
                   \* file has been given to the program a second time
    call,          \* a function of the programs called on its own: its name,
                   \* its argument and, once it has returned, its result
    batch,         \* mysql: the statements of a file going through the groups
                   \* process_sql_file hands to execute_sql_batch
    scan,          \* mysql: the watched directory, .done, .error and the state
                   \* file of scan_and_process
    pool           \* mysql: the MySQLConnectionPool and the connections handed out

vars == <<prog, input, content, hash_seed, now, pc, statements, stmt_idx,
          all_records, log, optimized, committed, progress, first_run, call,
          batch, scan, pool>>

\* what belongs to the service around process_sql_file of mysql_auto_importer
service == <<batch, scan, pool>>

\* what belongs to the run of a program on one file, and to a function called
pipeline == <<prog, input, content, hash_seed, now, pc, statements, stmt_idx,
              all_records, log, optimized, committed, progress, first_run, call>>

\* name of the processed file
FileName == "f.sql"

\* longest tuple list of a statement given to mysql_auto_importer
MaxTuples == 3

\* longest tuple list of a statement given to FileSQLAdapter and sql_smart_importer
MaxRecords == 2

\* A tuple of a VALUES list: its text, and the raw value tokens SQL reads in it
Tuple(text, tokens) == [text |-> text, tokens |-> tokens]

PipeTuples ==
    { Tuple("(1,'x')", <<"1", "'x'">>),
      Tuple("(2,'y')", <<"2", "'y'">>),
      Tuple("(3,NULL)", <<"3", "NULL">>),
      Tuple("(4)", <<"4">>),
      Tuple("(5,'z',6)", <<"5", "'z'", "6">>),
      Tuple("('a;\nb',7)", <<"'a;\nb'", "7">>),
      Tuple("('x  y',8)", <<"'x  y'", "8">>),
      Tuple("(1,')(')", <<"1", "')('">>),
      Tuple("('x--y',9)", <<"'x--y'", "9">>) }

BatchTuples ==
    { Tuple("(1,'x')", <<"1", "'x'">>),
      Tuple("(3,NULL)", <<"3", "NULL">>),
      Tuple("('a;\nb',7)", <<"'a;\nb'", "7">>),
      Tuple("(\")\",8)", <<"\")\"", "8">>),
      Tuple("(\")(\",9)", <<"\")(\"", "9">>) }

TupleLists(forms, n) == UNION {[1..k -> forms] : k \in 1..n}

\* table identifiers: plain, back-quoted, schema-qualified
Tables == {"t", BackQuote \o "t" \o BackQuote, "dbo.t"}

ColumnLists == {"(a,b)", "(name,employee_name)"}

\* what precedes the statement in the file: nothing, a statement that is no INSERT,
\* an INSERT without a column list
Preludes == {"", "DELETE FROM t;\n", "INSERT INTO t VALUES (0);\n"}

PipeInputs ==
    [pre : Preludes, table : {"t"}, cols : ColumnLists, tuples : TupleLists(PipeTuples, MaxRecords)]

BatchInputs ==
    [pre : Preludes, table : Tables, cols : {"(a,b)"}, tuples : TupleLists(BatchTuples, MaxTuples)]

RECURSIVE Texts(_)
Texts(tuples) == IF tuples = <<>> THEN <<>> ELSE <<Head(tuples).text>> \o Texts(Tail(tuples))

\* the INSERT statement of an input
StatementOf(in) ==
    "INSERT INTO " \o in.table \o in.cols \o " VALUES " \o Join(",", Texts(in.tuples)) \o ";"

\* the text of the file of an input
Render(in) == in.pre \o StatementOf(in)

NoProgress ==
    [total_statements |-> 0, processed_statements |-> 0, success_count |-> 0, error_count |-> 0]

\* the file has been processed once only
NoRun == [done |-> FALSE]

\* no function is called on its own
NoCall == [fn |-> ""]

\* no file goes through execute_sql_batch, no directory is scanned, no pool is built
NoBatch == [total |-> 0]
NoScan == [scans |-> 0]
NoPool == [size |-> 0]

Init ==
    /\ \/ prog = "file" /\ input \in PipeInputs /\ hash_seed = 0
       \/ prog = "smart" /\ input \in PipeInputs /\ hash_seed \in {0, 1}
       \/ prog = "mysql" /\ input \in BatchInputs /\ hash_seed = 0
    /\ content = Render(input)
    /\ now = 0
    /\ pc = "start"
    /\ statements = <<>>
    /\ stmt_idx = 0
    /\ all_records = <<>>
    /\ log = <<>>
    /\ optimized = <<>>
    /\ committed = <<>>
    /\ progress = NoProgress
    /\ first_run = NoRun
    /\ call = NoCall
    /\ batch = NoBatch /\ scan = NoScan /\ pool = NoPool

(***************************************************************************)
(* FileSQLAdapter._process_sql_file                                        *)
(***************************************************************************)
FileSplit ==
    /\ prog = "file" /\ pc = "start"
    /\ statements' = split_sql_statements(content)
    /\ pc' = "loop"
    /\ UNCHANGED <<prog, input, content, hash_seed, now, stmt_idx, all_records, log,
                   optimized, committed, progress,
                   first_run, call, service>>

\* one turn of "for statement in statements"
FileStatement ==
    /\ prog = "file" /\ pc = "loop" /\ stmt_idx < Len(statements)
    /\ LET statement == statements[stmt_idx + 1]
           Extend(parsed) ==
               all_records' = IF parsed.ok
                              THEN all_records \o file_records(FileName, parsed, 0, now)
                              ELSE all_records
       IN  Extend(IF Contains(Lower(statement), "insert into")
                  THEN file_parse_insert_statement(statement)
                  ELSE NoParse)
    /\ stmt_idx' = stmt_idx + 1
    /\ now' = now + 1
    /\ UNCHANGED <<prog, input, content, hash_seed, pc, statements, log,
                   optimized, committed, progress,
                   first_run, call, service>>

\* return all_records
FileDone ==
    /\ prog = "file" /\ pc = "loop" /\ stmt_idx = Len(statements)
    /\ pc' = "done"
    /\ UNCHANGED <<prog, input, content, hash_seed, now, statements, stmt_idx, all_records,
                   log, optimized, committed, progress,
                   first_run, call, service>>

(***************************************************************************)
(* sql_smart_importer.process_sql_file                                     *)
(***************************************************************************)
Report(event, n) == [event |-> event, n |-> n]

SmartSplit ==
    /\ prog = "smart" /\ pc = "start"
    /\ statements' = smart_split(content)
    /\ pc' = "loop"
    /\ UNCHANGED <<prog, input, content, hash_seed, now, stmt_idx, all_records, log,
                   optimized, committed, progress,
                   first_run, call, service>>

\* One turn of "for stmt_idx, statement in enumerate(statements)".  The documents
\* of a statement go to the index in slices of 500, one request each; a statement
\* of the model has fewer, so there is one request, which the index may refuse
\* (es_ok = FALSE): the exception ends process_sql_file.
SmartStatement ==
    /\ prog = "smart" /\ pc = "loop" /\ stmt_idx < Len(statements)
    /\ LET statement == statements[stmt_idx + 1]
           Index(is_insert, parsed_ok, docs) ==
               IF is_insert /\ parsed_ok /\ docs # <<>>
               THEN \E es_ok \in BOOLEAN :
                        IF es_ok
                        THEN /\ all_records' = all_records \o docs
                             /\ log' = Append(log, Report("indexed", Len(docs)))
                             /\ pc' = pc
                        ELSE /\ all_records' = all_records
                             /\ log' = Append(log, Report("file_failed", stmt_idx + 1))
                             /\ pc' = "failed"
               ELSE /\ all_records' = all_records
                    /\ pc' = pc
                    /\ log' = IF is_insert /\ ~parsed_ok
                              THEN Append(log, Report("cannot_parse", stmt_idx + 1))
                              ELSE log
           Parsed(is_insert, parsed) ==
               Index(is_insert, parsed.ok,
                     create_structured_documents(FileName, parsed, now, hash_seed))
           Handle(is_insert) ==
               Parsed(is_insert,
                      IF is_insert THEN smart_parse_insert_statement(statement) ELSE NoParse)
       IN  Handle(Contains(Lower(statement), "insert into"))
    /\ stmt_idx' = stmt_idx + 1
    /\ now' = now + 1
    /\ UNCHANGED <<prog, input, content, hash_seed, statements, optimized, committed, progress,
                   first_run, call, service>>

\* the file is renamed to .done
SmartDone ==
    /\ prog = "smart" /\ pc = "loop" /\ stmt_idx = Len(statements)
    /\ pc' = "done"
    /\ log' = Append(log, Report("done", Len(all_records)))
    /\ UNCHANGED <<prog, input, content, hash_seed, now, statements, stmt_idx, all_records,
                   optimized, committed, progress,
                   first_run, call, service>>

(***************************************************************************)
(* mysql_auto_importer.process_sql_file with execute_sql_batch             *)
(***************************************************************************)
MysqlParse ==
    /\ prog = "mysql" /\ pc = "start"
    /\ statements' = parse_file(content)
    /\ pc' = "loop"
    /\ UNCHANGED <<prog, input, content, hash_seed, now, stmt_idx, all_records, log,
                   optimized, committed, progress,
                   first_run, call, service>>

Update(pr, success) ==
    [pr EXCEPT !.processed_statements = @ + 1,
               !.success_count = IF success THEN @ + 1 ELSE @,
               !.error_count = IF success THEN @ ELSE @ + 1]

\* One turn of "for stmt_type, sql in statements" of execute_sql_batch.  Each
\* cursor.execute may raise: failed = 0 when none does, else the 1-based position
\* in sqls of the one that raises; those before it are committed already.
MysqlStatement ==
    /\ prog = "mysql" /\ pc = "loop" /\ stmt_idx < Len(statements)
    /\ LET stmt_type == statements[stmt_idx + 1][1]
           sql == statements[stmt_idx + 1][2]
           Execute(sqls) ==
               /\ optimized' = IF stmt_type = "INSERT" THEN sqls ELSE optimized
               /\ \E failed \in 0..Len(sqls) :
                     /\ committed' = committed \o (IF failed = 0 THEN sqls ELSE SubSeq(sqls, 1, failed - 1))
                     /\ progress' = Update(progress, failed = 0)
                     /\ log' = IF failed = 0 THEN log ELSE Append(log, Report("sql_failed", stmt_idx + 1))
       IN  Execute(IF stmt_type = "INSERT" THEN optimize_insert(sql) ELSE <<sql>>)
    /\ stmt_idx' = stmt_idx + 1
    /\ UNCHANGED <<prog, input, content, hash_seed, now, pc, statements, all_records,
                   first_run, call, service>>

\* the result of process_sql_file: no error, or errors under a tenth of the successes
MysqlDone ==
    /\ prog = "mysql" /\ pc = "loop" /\ stmt_idx = Len(statements)
    /\ pc' = IF progress.error_count = 0 \/ progress.error_count * 10 < progress.success_count
             THEN "done" ELSE "failed"
    /\ UNCHANGED <<prog, input, content, hash_seed, now, statements, stmt_idx, all_records,
                   log, optimized, committed, progress,
                   first_run, call, service>>

Next ==
    \/ FileSplit \/ FileStatement \/ FileDone
    \/ SmartSplit \/ SmartStatement \/ SmartDone
    \/ MysqlParse \/ MysqlStatement \/ MysqlDone

Spec == Init /\ [][Next]_vars

(***************************************************************************)
(* Reading the file.  A buffer is a sequence of bytes 0..255, a text a     *)
(* sequence of code points.  bytes.decode is given for the six encodings   *)
(* of the list and the error handlers "strict", "ignore" and "replace".    *)
(***************************************************************************)
Decoded(text) == [ok |-> TRUE, text |-> text]
DecodeError == [ok |-> FALSE]

\* U+FFFD, what the handler "replace" writes for an invalid sequence
REPLACEMENT == 65533

\* UTF-8: the length of the sequence a lead byte opens, 0 for a byte that opens none
Utf8Need(lead) ==
    IF lead < 128 THEN 1
    ELSE IF lead \in 194..223 THEN 2
    ELSE IF lead \in 224..239 THEN 3
    ELSE IF lead \in 240..244 THEN 4
    ELSE 0

\* UTF-8: the bytes allowed after the lead byte, and after those
Utf8Second(lead, x) ==
    CASE lead = 224 -> x \in 160..191
      [] lead = 237 -> x \in 128..159
      [] lead = 240 -> x \in 144..191
      [] lead = 244 -> x \in 128..143
      [] OTHER -> x \in 128..191

Utf8Follows(b, i, k) ==
    /\ i + k - 1 <= Len(b)
    /\ IF k = 2 THEN Utf8Second(b[i], b[i + 1]) ELSE b[i + k - 1] \in 128..191

\* UTF-8: how many bytes from position i are the start of a well-formed sequence
Utf8Good(b, i) ==
    IF Utf8Need(b[i]) = 0 THEN 0
    ELSE CHOOSE k \in 1..Utf8Need(b[i]) :
             /\ \A m \in 2..k : Utf8Follows(b, i, m)
             /\ k < Utf8Need(b[i]) => ~Utf8Follows(b, i, k + 1)

Utf8Point(b, i, n) ==
    CASE n = 1 -> b[i]
      [] n = 2 -> (b[i] - 192) * 64 + (b[i + 1] - 128)
      [] n = 3 -> (b[i] - 224) * 4096 + (b[i + 1] - 128) * 64 + (b[i + 2] - 128)
      [] OTHER -> (b[i] - 240) * 262144 + (b[i + 1] - 128) * 4096
                  + (b[i + 2] - 128) * 64 + (b[i + 3] - 128)

RECURSIVE Utf8Decode(_, _, _, _)
Utf8Decode(b, i, errors, acc) ==
    IF i > Len(b) THEN Decoded(acc)
    ELSE IF Utf8Need(b[i]) > 0 /\ Utf8Good(b, i) = Utf8Need(b[i])
    THEN Utf8Decode(b, i + Utf8Need(b[i]), errors,
                    Append(acc, Utf8Point(b, i, Utf8Need(b[i]))))
    ELSE IF errors = "strict" THEN DecodeError
    ELSE Utf8Decode(b, IF Utf8Good(b, i) = 0 THEN i + 1 ELSE i + Utf8Good(b, i), errors,
                    IF errors = "replace" THEN Append(acc, REPLACEMENT) ELSE acc)

\* utf-8-sig: UTF-8 after a byte order mark, if there is one
Utf8Bom == <<239, 187, 191>>

SkipBom(b) ==
    IF Len(b) >= 3 /\ SubSeq(b, 1, 3) = Utf8Bom THEN SubSeq(b, 4, Len(b)) ELSE b

\* cp950 and big5: the two-byte characters of the buffers read here
Big5Table ==
    (<<164, 64>> :> 19968) @@ (<<164, 65>> :> 20057) @@ (<<164, 164>> :> 20013)
    @@ (<<187, 191>> :> 36955) @@ (<<191, 65>> :> 28580) @@ (<<228, 184>> :> 37533)
    @@ (<<239, 187>> :> 22172)

Cp950Table == Big5Table @@ (<<249, 214>> :> 30849)

RECURSIVE DbcsDecode(_, _, _, _)
DbcsDecode(table, b, i, acc) ==
    IF i > Len(b) THEN Decoded(acc)
    ELSE IF b[i] < 128 THEN DbcsDecode(table, b, i + 1, Append(acc, b[i]))
    ELSE IF i < Len(b) /\ <<b[i], b[i + 1]>> \in DOMAIN table
    THEN DbcsDecode(table, b, i + 2, Append(acc, table[<<b[i], b[i + 1]>>]))
    ELSE DecodeError

\* UTF-16: the code unit at position i
Utf16Unit(b, i, big) ==
    IF big THEN b[i] * 256 + b[i + 1] ELSE b[i] + b[i + 1] * 256

HighSurrogate(u) == u \in 55296..56319
LowSurrogate(u) == u \in 56320..57343

RECURSIVE Utf16Decode(_, _, _, _)
Utf16Decode(b, i, big, acc) ==
    IF i > Len(b) THEN Decoded(acc)
    ELSE IF i = Len(b) THEN DecodeError
    ELSE IF LowSurrogate(Utf16Unit(b, i, big)) THEN DecodeError
    ELSE IF HighSurrogate(Utf16Unit(b, i, big))
    THEN IF i + 3 <= Len(b) /\ LowSurrogate(Utf16Unit(b, i + 2, big))
         THEN Utf16Decode(b, i + 4, big,
                          Append(acc, 65536 + (Utf16Unit(b, i, big) - 55296) * 1024
                                      + (Utf16Unit(b, i + 2, big) - 56320)))
         ELSE DecodeError
    ELSE Utf16Decode(b, i + 2, big, Append(acc, Utf16Unit(b, i, big)))

\* b.decode(encoding, errors)
decode(b, encoding, errors) ==
    CASE encoding = "utf-8" -> Utf8Decode(b, 1, errors, <<>>)
      [] encoding = "utf-8-sig" -> Utf8Decode(SkipBom(b), 1, errors, <<>>)
      [] encoding = "cp950" -> DbcsDecode(Cp950Table, b, 1, <<>>)
      [] encoding = "big5" -> DbcsDecode(Big5Table, b, 1, <<>>)
      [] encoding = "utf-16le" -> Utf16Decode(b, 1, FALSE, <<>>)
      [] encoding = "utf-16be" -> Utf16Decode(b, 1, TRUE, <<>>)

\* text.replace("\r", "")
StripCR(text) == SelectSeq(text, LAMBDA c : c # 13)

encodings == <<"utf-8", "utf-8-sig", "cp950", "big5", "utf-16le", "utf-16be">>

\* the loop over the encodings, from the k-th on, and the return after it
RECURSIVE TryEncodings(_, _, _)
TryEncodings(b, k, fallback) ==
    IF k > Len(encodings) THEN StripCR(decode(b, "utf-8", fallback).text)
    ELSE IF decode(b, encodings[k], "strict").ok
    THEN StripCR(decode(b, encodings[k], "strict").text)
    ELSE TryEncodings(b, k + 1, fallback)

robust_read_text_replace(b) == TryEncodings(b, 1, "replace")
robust_read_text(b) == TryEncodings(b, 1, "ignore")

(***************************************************************************)
(* The same file given a second time to FileSQLAdapter or                  *)
(* sql_smart_importer: the second run starts later than the first ended,   *)
(* in a process that may have another string hash seed.                    *)
(***************************************************************************)
Rerun ==
    /\ prog \in {"file", "smart"} /\ pc = "done" /\ ~first_run.done
    /\ first_run' = [done |-> TRUE, records |-> all_records]
    /\ pc' = "start"
    /\ statements' = <<>>
    /\ stmt_idx' = 0
    /\ all_records' = <<>>
    /\ log' = <<>>
    /\ now' = now + 1
    /\ hash_seed' \in (IF prog = "smart" THEN {0, 1} ELSE {hash_seed})
    /\ UNCHANGED <<prog, input, content, optimized, committed, progress, call, service>>

\* the files given twice: one INSERT with one tuple
RerunInit ==
    /\ Init
    /\ prog \in {"file", "smart"}
    /\ input.pre = "" /\ Len(input.tuples) = 1

RerunNext ==
    \/ FileSplit \/ FileStatement \/ FileDone
    \/ SmartSplit \/ SmartStatement \/ SmartDone
    \/ Rerun

SpecRerun == RerunInit /\ [][RerunNext]_vars

(***************************************************************************)
(* FileSQLAdapter and sql_smart_importer on files where something stands   *)
(* before the INSERT (a comment line, an INSERT into the same table) and   *)
(* where the columns carry the names of the bookkeeping fields of a record *)
(***************************************************************************)
FramePreludes == {"", "-- c\n", "INSERT INTO t(a,b) VALUES (9,'w');\n"}

FrameColumnLists == {"(a,b)", "(pk,b)", "(record_index,table_name)", "(name,employee_name)"}

FrameInputs ==
    [pre : FramePreludes, table : {"t"}, cols : FrameColumnLists,
     tuples : TupleLists(PipeTuples, 1)]

FrameInit ==
    /\ \/ prog = "file" /\ hash_seed = 0
       \/ prog = "smart" /\ hash_seed \in {0, 1}
    /\ input \in FrameInputs
    /\ content = Render(input)
    /\ now = 0
    /\ pc = "start"
    /\ statements = <<>>
    /\ stmt_idx = 0
    /\ all_records = <<>>
    /\ log = <<>>
    /\ optimized = <<>>
    /\ committed = <<>>
    /\ progress = NoProgress
    /\ first_run = NoRun
    /\ call = NoCall
    /\ batch = NoBatch /\ scan = NoScan /\ pool = NoPool

FrameNext ==
    \/ FileSplit \/ FileStatement \/ FileDone
    \/ SmartSplit \/ SmartStatement \/ SmartDone

SpecFrame == FrameInit /\ [][FrameNext]_vars

(***************************************************************************)
(* mysql_auto_importer as a service.  No program runs on a file of the     *)
(* pipelines above and no function is called on its own.                   *)
(***************************************************************************)
ServiceIdle ==
    /\ prog = "service"
    /\ input = <<>>
    /\ content = ""
    /\ hash_seed = 0
    /\ now = 0
    /\ pc = "start"
    /\ statements = <<>>
    /\ stmt_idx = 0
    /\ all_records = <<>>
    /\ log = <<>>
    /\ optimized = <<>>
    /\ committed = <<>>
    /\ progress = NoProgress
    /\ first_run = NoRun
    /\ call = NoCall

(***************************************************************************)
(* process_sql_file handing the statements of a file to execute_sql_batch  *)
(* in groups, each statement succeeding or failing in cursor.execute       *)
(***************************************************************************)
\* "if len(statements) >= 100" of process_sql_file, scaled down
GROUP_SIZE == 2

\* "if error_count > 100" of execute_sql_batch, scaled down alike
MAX_ERRORS == 2

\* most statements in a file
MaxStatements == 7

Min(a, b) == IF a < b THEN a ELSE b

\* total: the statements parse_file yields; idx: those handed to an
\* execute_sql_batch that has gone past them; executed: those given to
\* cursor.execute; error_count, success_count: the counters of the running
\* execute_sql_batch; progress: ProgressTracker.progress; done: progress.complete()
BatchInit ==
    /\ ServiceIdle /\ scan = NoScan /\ pool = NoPool
    /\ batch \in {[total |-> n, idx |-> 0, executed |-> 0, error_count |-> 0,
                    success_count |-> 0, progress |-> NoProgress, done |-> FALSE]
                   : n \in 1..MaxStatements}

\* where the group of the statement at 0-based position idx ends
GroupEnd(b) == Min(((b.idx \div GROUP_SIZE) + 1) * GROUP_SIZE, b.total)

\* one turn of "for stmt_type, sql in statements" of execute_sql_batch, and the
\* return to process_sql_file when it was the last turn of the call
TurnOf(b, ok) ==
    LET error_count == IF ok THEN b.error_count ELSE b.error_count + 1
        success_count == IF ok THEN b.success_count + 1 ELSE b.success_count
        stop == ~ok /\ error_count > MAX_ERRORS
        idx == IF stop THEN GroupEnd(b) ELSE b.idx + 1
        returned == idx = GroupEnd(b)
    IN  [b EXCEPT !.idx = idx,
                  !.executed = @ + 1,
                  !.error_count = IF returned THEN 0 ELSE error_count,
                  !.success_count = IF returned THEN 0 ELSE success_count,
                  !.progress = Update(@, ok)]

ExecuteSql ==
    /\ prog = "service" /\ batch.total > 0 /\ ~batch.done /\ batch.idx < batch.total
    /\ \E ok \in BOOLEAN : batch' = TurnOf(batch, ok)
    /\ UNCHANGED <<pipeline, scan, pool>>

\* progress.complete() and the result of process_sql_file
BatchComplete ==
    /\ prog = "service" /\ batch.total > 0 /\ ~batch.done /\ batch.idx = batch.total
    /\ batch' = [batch EXCEPT !.done = TRUE]
    /\ UNCHANGED <<pipeline, scan, pool>>

BatchNext == ExecuteSql \/ BatchComplete

SpecBatch == BatchInit /\ [][BatchNext]_vars

(***************************************************************************)
(* scan_and_process: the files of the watched directory, the state file,   *)
(* and the directories .done and .error.  Files are put into the watched   *)
(* directory from outside, a file taken back from .error included.         *)
(***************************************************************************)
FileNames == {"a.sql", "b.sql"}

\* get_file_hash of the contents a file may have
FileHashes == {"h1", "h2"}

\* how many files are put into the watched directory
MaxDrops == 3

File(name, hash) == [name |-> name, hash |-> hash]

\* watch: the *.sql files of WATCH_DIR, name to hash; state: load_state();
\* done, error: the files moved to DONE_DIR and ERROR_DIR, in order
ScanInit ==
    /\ ServiceIdle /\ batch = NoBatch /\ pool = NoPool
    /\ scan = [watch |-> <<>>, state |-> <<>>, done |-> <<>>, error |-> <<>>, drops |-> 0]

\* a file appears in the watched directory
DropFile ==
    /\ prog = "service" /\ "watch" \in DOMAIN scan /\ scan.drops < MaxDrops
    /\ \E name \in FileNames \ DOMAIN scan.watch, hash \in FileHashes :
           scan' = [scan EXCEPT !.watch = (name :> hash) @@ @, !.drops = @ + 1]
    /\ UNCHANGED <<pipeline, batch, pool>>

\* sorted(WATCH_DIR.glob("*.sql")): the first file
FirstFile(watch) ==
    CHOOSE name \in DOMAIN watch :
        \A other \in DOMAIN watch : name = other \/ Ch(name, 1) = "a"

Without(f, key) == [k \in DOMAIN f \ {key} |-> f[k]]

\* one turn of "for sql_file in sql_files" of scan_and_process; success is what
\* process_sql_file returns
TurnOfScan(sc, file_key, file_hash, success) ==
    IF file_key \in DOMAIN sc.state /\ sc.state[file_key].hash = file_hash
    THEN [sc EXCEPT !.watch = Without(@, file_key),
                    !.done = Append(@, File(file_key, file_hash))]
    ELSE [sc EXCEPT !.watch = Without(@, file_key),
                    !.state = (file_key :> [hash |-> file_hash, success |-> success]) @@ @,
                    !.done = IF success THEN Append(@, File(file_key, file_hash)) ELSE @,
                    !.error = IF success THEN @ ELSE Append(@, File(file_key, file_hash))]

ProcessFile ==
    /\ prog = "service" /\ "watch" \in DOMAIN scan /\ DOMAIN scan.watch # {}
    /\ \E success \in BOOLEAN :
           scan' = TurnOfScan(scan, FirstFile(scan.watch),
                              scan.watch[FirstFile(scan.watch)], success)
    /\ UNCHANGED <<pipeline, batch, pool>>

ScanNext == DropFile \/ ProcessFile

SpecScan == ScanInit /\ [][ScanNext]_vars

(***************************************************************************)
(* MySQLConnectionPool.  A connection is a number, given in the order of   *)
(* creation; issued holds the connections callers have been handed, any of *)
(* which a caller may return at any time; seen records which of the        *)
(* failures have happened so far.                                          *)
(***************************************************************************)
\* CONNECTION_POOL_SIZE, scaled down
PoolSize == 2

\* how many connections pymysql.connect opens in all
MaxCreated == 4

PoolCases == {"ping_failed", "create_failed", "rollback_failed", "returned_twice"}

\* __init__ and _create_connections: the connections that could be opened
PoolInit ==
    /\ ServiceIdle /\ batch = NoBatch /\ scan = NoScan
    /\ \E opened \in 0..PoolSize :
           pool = [size |-> PoolSize,
                   connections |-> [i \in 1..opened |-> i],
                   used_connections |-> {},
                   created |-> opened,
                   issued |-> {},
                   seen |-> IF opened < PoolSize THEN {"create_failed"} ELSE {}]

\* the connection handed to the caller
Issue(p, conn) ==
    [p EXCEPT !.used_connections = @ \cup {conn}, !.issued = @ \cup {conn}]

\* get_connection.  failed: how many idle connections, from the front, fail
\* their ping and find no replacement; outcome: how the call ends, with the
\* next idle connection answering its ping ("ping"), with a new connection
\* ("created"), or with the exception ("raised")
get_connection(p, failed, outcome) ==
    LET rest == SubSeq(p.connections, failed + 1, Len(p.connections))
        passed == [p EXCEPT !.seen = IF failed > 0
                                     THEN @ \cup {"ping_failed", "create_failed"}
                                     ELSE @]
        new_conn == p.created + 1
    IN  IF rest # <<>>
        THEN IF outcome = "ping"
             THEN Issue([passed EXCEPT !.connections = Tail(rest)], Head(rest))
             ELSE Issue([passed EXCEPT !.connections = Tail(rest),
                                       !.created = new_conn,
                                       !.seen = @ \cup {"ping_failed"}], new_conn)
        ELSE IF outcome = "created"
             THEN Issue([passed EXCEPT !.connections = <<>>,
                                       !.created = new_conn], new_conn)
             ELSE [passed EXCEPT !.connections = <<>>,
                                 !.seen = IF Cardinality(p.used_connections) < p.size
                                          THEN @ \cup {"create_failed"}
                                          ELSE @]

\* the ways a call of get_connection can end
Outcomes(p, failed) ==
    IF failed < Len(p.connections)
    THEN {"ping"} \cup (IF p.created < MaxCreated THEN {"created"} ELSE {})
    ELSE {"raised"} \cup (IF Cardinality(p.used_connections) < p.size
                              /\ p.created < MaxCreated
                           THEN {"created"} ELSE {})

GetConnection ==
    /\ prog = "service" /\ pool.size > 0
    /\ \E failed \in 0..Len(pool.connections) :
           \E outcome \in Outcomes(pool, failed) :
               pool' = get_connection(pool, failed, outcome)
    /\ UNCHANGED <<pipeline, batch, scan>>

return_connection_unchecked(p, conn, rollback_ok) ==
    [p EXCEPT !.used_connections = @ \ {conn},
              !.connections = IF rollback_ok THEN Append(@, conn) ELSE @,
              !.seen = @ \cup (IF rollback_ok THEN {} ELSE {"rollback_failed"})
                         \cup (IF conn \in p.used_connections THEN {} ELSE {"returned_twice"})]

\* return_connection; rollback_ok: conn.rollback() does not raise
return_connection(p, conn, rollback_ok) ==
    IF conn \in p.used_connections
    THEN [p EXCEPT !.used_connections = @ \ {conn},
                   !.connections = IF rollback_ok THEN Append(@, conn) ELSE @,
                   !.seen = IF rollback_ok THEN @ ELSE @ \cup {"rollback_failed"}]
    ELSE [p EXCEPT !.seen = @ \cup {"returned_twice"}]

ReturnConnection ==
    /\ prog = "service" /\ pool.size > 0
    /\ \E conn \in pool.issued, rollback_ok \in BOOLEAN :
           pool' = return_connection(pool, conn, rollback_ok)
    /\ UNCHANGED <<pipeline, batch, scan>>

PoolNext == GetConnection \/ ReturnConnection

SpecPool == PoolInit /\ [][PoolNext]_vars

(***************************************************************************)
(* The functions of the programs called on their own: a call has the name  *)
(* of the function and its argument, and the result once it has returned.  *)
(***************************************************************************)
\* A raw token is written pad pre body post pad.  body is a text with the Number
\* it denotes when it is a numeric literal.
NotNumber == [k |-> "none"]

Body(text, num) == [text |-> text, num |-> num]

TokenBodies ==
    { Body("NULL", NotNumber), Body("null", NotNumber), Body("nUlL", NotNumber),
      Body("123", PyInt(123)), Body("-7", PyInt(-7)), Body("007", PyInt(7)),
      Body("1.50", PyFloat(15, 1)), Body("+.5", PyFloat(5, 1)), Body("-2.", PyFloat(-2, 0)),
      Body("1.2.3", NotNumber), Body("12a", NotNumber), Body(".", NotNumber),
      Body("abc", NotNumber), Body("a b", NotNumber), Body("", NotNumber) }

TokenOpenings == {"", "'", "N'", "n'", "DATE '", "timestamp '"}

TokenClosings == {"", "'"}

TokenPads == {"", " "}

TokenArgs == [pad : TokenPads, pre : TokenOpenings, body : TokenBodies, post : TokenClosings]

\* the token without its padding, and the token
TokenCore(a) == a.pre \o a.body.text \o a.post

TokenOf(a) == a.pad \o TokenCore(a) \o a.pad

\* Tuples given to the value tokenizer, with the raw tokens SQL reads in them:
\* plain ones, ones with ')' or ',' inside a quoted literal, ones with nested
\* parentheses
KindTuple(kind, text, tokens) == [kind |-> kind, text |-> text, tokens |-> tokens]

TokenizerTuples ==
    { KindTuple("plain", "(1,'x')", <<"1", "'x'">>),
      KindTuple("plain", "(2, NULL)", <<"2", "NULL">>),
      KindTuple("quoted", "('a)b', 1)", <<"'a)b'", "1">>),
      KindTuple("quoted", "(2,'c,d')", <<"2", "'c,d'">>),
      KindTuple("nested", "(NOW(), 1)", <<"NOW()", "1">>),
      KindTuple("nested", "(1, f(2,3))", <<"1", "f(2,3)">>),
      KindTuple("nested", "(1,(2,(3,4)))", <<"1", "(2,(3,4))">>) }

\* the bytes of the files read: a letter, a carriage return, a lead byte of cp950
\* and big5, a trail byte, and a byte no encoding of the list accepts on its own
ByteAlphabet == {65, 13, 164, 64, 255}

\* longest buffer over ByteAlphabet
MaxBytes == 3

\* a text with a byte order mark, a three-byte UTF-8 character, a character of
\* cp950 that big5 lacks, a lone UTF-16 surrogate, a cut UTF-8 character
SpecialBuffers ==
    {<<239, 187, 191, 65>>, <<228, 184, 128>>, <<249, 214>>, <<65, 216>>, <<228, 184>>}

Buffers == UNION {[1..n -> ByteAlphabet] : n \in 0..MaxBytes} \cup SpecialBuffers

\* INSERT statements given to the three directive extractors: the spellings
\* of the keywords, the table names and the column lists
InsertSpellings == {"INSERT INTO", "insert into", "Insert Into"}
ValuesSpellings == {"VALUES", "values"}
SpacedColumnLists == {"(a,b)", "( a , b )"}

DirectiveArgs ==
    [insert : InsertSpellings, table : Tables, cols : SpacedColumnLists,
     values : ValuesSpellings]

\* (1,'x'),(2,'x'), ... : n tuples
RECURSIVE NumberedTuples(_)
NumberedTuples(n) ==
    IF n = 0 THEN <<>> ELSE Append(NumberedTuples(n - 1), "(" \o IntToStr(n) \o ",'x')")

\* one tuple more than a batch holds
DirectiveText(a) ==
    a.insert \o " " \o a.table \o " " \o a.cols \o " " \o a.values \o " "
    \o Join(",", NumberedTuples(BATCH_SIZE + 1))

\* files given to SQLParser.parse_file: at most one terminated statement, then
\* a last statement and what follows it in the file
ParseFileArgs ==
    [head : {"", "SELECT 1;\n", "INSERT INTO t (a,b) VALUES (1,'x');\n"},
     last : {"INSERT INTO t (a,b) VALUES " \o Join(",", NumberedTuples(BATCH_SIZE + 1)),
             "insert into t (a,b) values (1,'x')",
             "UPDATE t SET a=1"},
     end : {"", "\n", ";", ";\n"}]

FileText(a) == a.head \o a.last \o a.end

\* execute_sql_batch: the statements given to cursor.execute, in order
RECURSIVE ExecutedSqls(_)
ExecutedSqls(stmts) ==
    IF stmts = <<>> THEN <<>>
    ELSE (IF Head(stmts)[1] = "INSERT" THEN optimize_insert(Head(stmts)[2])
          ELSE <<Head(stmts)[2]>>) \o ExecutedSqls(Tail(stmts))

\* what a run gives for a file: the statements parse_file yields and those executed
Processed(stmts) == [yielded |-> stmts, executed |-> ExecutedSqls(stmts)]

\* files given to the three statement splitters: what precedes the statement
\* (nothing, a comment line, a statement), the statement (closed literal, a
\* literal with a doubled quote, a literal never closed) and what follows it
SplitArgs ==
    [lead : {"", "-- c\n", "SELECT 1;\n"},
     stmt : {"INSERT INTO t(a,b) VALUES (1,'x')",
             "INSERT INTO t(a,b) VALUES (1,'it''s')",
             "INSERT INTO t(a,b) VALUES (1,'a"},
     tail : {"", ";\n", ";\nSELECT 1;\n"}]

SplitText(a) == a.lead \o a.stmt \o a.tail

Splitters == {"split_sql_statements", "smart_split", "parse_file_spans"}

\* the statement texts of what parse_file yields
RECURSIVE Seconds(_)
Seconds(pairs) == IF pairs = <<>> THEN <<>> ELSE <<Head(pairs)[2]>> \o Seconds(Tail(pairs))

Extractors == {"file_parse_insert_statement", "smart_parse_insert_statement", "optimize_insert"}

Calls ==
    {[fn |-> "clean_value", arg |-> a] : a \in TokenArgs}
    \cup {[fn |-> f, arg |-> a] : f \in Extractors, a \in DirectiveArgs}
    \cup {[fn |-> "parse_file", arg |-> a] : a \in ParseFileArgs}
    \cup {[fn |-> f, arg |-> a] : f \in Splitters, a \in SplitArgs}
    \cup {[fn |-> "parse_values_section", arg |-> a] : a \in TupleLists(TokenizerTuples, MaxRecords)}
    \cup {[fn |-> "robust_read_text", arg |-> b] : b \in Buffers}

Returned == "result" \in DOMAIN call

Return(value) == [fn |-> call.fn, arg |-> call.arg, result |-> value]

UnitInit ==
    /\ prog = "unit"
    /\ input = <<>>
    /\ content = ""
    /\ hash_seed = 0
    /\ now = 0
    /\ pc = "start"
    /\ statements = <<>>
    /\ stmt_idx = 0
    /\ all_records = <<>>
    /\ log = <<>>
    /\ optimized = <<>>
    /\ committed = <<>>
    /\ progress = NoProgress
    /\ first_run = NoRun
    /\ call \in Calls
    /\ batch = NoBatch /\ scan = NoScan /\ pool = NoPool

\* _clean_value / clean_value on a raw token
CallCleanValue ==
    /\ prog = "unit" /\ call.fn = "clean_value" /\ ~Returned
    /\ call' = Return(clean_value(TokenOf(call.arg)))
    /\ UNCHANGED <<prog, input, content, hash_seed, now, pc, statements, stmt_idx,
                   all_records, log, optimized, committed, progress, first_run, service>>

\* _parse_values_section / parse_values_section on the text of a tuple list
CallParseValuesSection ==
    /\ prog = "unit" /\ call.fn = "parse_values_section" /\ ~Returned
    /\ call' = Return(parse_values_section(Join(",", Texts(call.arg))))
    /\ UNCHANGED <<prog, input, content, hash_seed, now, pc, statements, stmt_idx,
                   all_records, log, optimized, committed, progress, first_run, service>>

CallRobustReadText ==
    /\ prog = "unit" /\ call.fn = "robust_read_text" /\ ~Returned
    /\ call' = Return(robust_read_text(call.arg))
    /\ UNCHANGED <<prog, input, content, hash_seed, now, pc, statements, stmt_idx,
                   all_records, log, optimized, committed, progress, first_run, service>>

CallFileParseInsertStatement ==
    /\ prog = "unit" /\ call.fn = "file_parse_insert_statement" /\ ~Returned
    /\ call' = Return(file_parse_insert_statement(DirectiveText(call.arg)))
    /\ UNCHANGED <<prog, input, content, hash_seed, now, pc, statements, stmt_idx,
                   all_records, log, optimized, committed, progress, first_run, service>>

CallSmartParseInsertStatement ==
    /\ prog = "unit" /\ call.fn = "smart_parse_insert_statement" /\ ~Returned
    /\ call' = Return(smart_parse_insert_statement(DirectiveText(call.arg)))
    /\ UNCHANGED <<prog, input, content, hash_seed, now, pc, statements, stmt_idx,
                   all_records, log, optimized, committed, progress, first_run, service>>

CallOptimizeInsert ==
    /\ prog = "unit" /\ call.fn = "optimize_insert" /\ ~Returned
    /\ call' = Return(optimize_insert(DirectiveText(call.arg) \o ";"))
    /\ UNCHANGED <<prog, input, content, hash_seed, now, pc, statements, stmt_idx,
                   all_records, log, optimized, committed, progress, first_run, service>>

CallParseFile ==
    /\ prog = "unit" /\ call.fn = "parse_file" /\ ~Returned
    /\ call' = Return(Processed(parse_file(FileText(call.arg))))
    /\ UNCHANGED <<prog, input, content, hash_seed, now, pc, statements, stmt_idx,
                   all_records, log, optimized, committed, progress, first_run, service>>

CallSplitSqlStatements ==
    /\ prog = "unit" /\ call.fn = "split_sql_statements" /\ ~Returned
    /\ call' = Return(split_sql_statements(SplitText(call.arg)))
    /\ UNCHANGED <<prog, input, content, hash_seed, now, pc, statements, stmt_idx,
                   all_records, log, optimized, committed, progress, first_run, service>>

CallSmartSplit ==
    /\ prog = "unit" /\ call.fn = "smart_split" /\ ~Returned
    /\ call' = Return(smart_split(SplitText(call.arg)))
    /\ UNCHANGED <<prog, input, content, hash_seed, now, pc, statements, stmt_idx,
                   all_records, log, optimized, committed, progress, first_run, service>>

CallParseFileSpans ==
    /\ prog = "unit" /\ call.fn = "parse_file_spans" /\ ~Returned
    /\ call' = Return(Seconds(parse_file(SplitText(call.arg))))
    /\ UNCHANGED <<prog, input, content, hash_seed, now, pc, statements, stmt_idx,
                   all_records, log, optimized, committed, progress, first_run, service>>

UnitNext ==
    \/ CallSplitSqlStatements
    \/ CallSmartSplit
    \/ CallParseFileSpans
    \/ CallParseFile
    \/ CallCleanValue
    \/ CallFileParseInsertStatement
    \/ CallSmartParseInsertStatement
    \/ CallOptimizeInsert
    \/ CallParseValuesSection
    \/ CallRobustReadText

SpecUnit == UnitInit /\ [][UnitNext]_vars

(***************************************************************************)
(* What the input says, for the statements of the properties               *)
(***************************************************************************)
\* the texts of the statements, in order (parse_file yields (stmt_type, sql) pairs)
RECURSIVE StatementTexts(_)
StatementTexts(stmts) ==
    IF stmts = <<>> THEN <<>>
    ELSE <<IF prog = "mysql" THEN Head(stmts)[2] ELSE Head(stmts)>> \o StatementTexts(Tail(stmts))

\* a statement's text without its terminator
Unterminated(sql) == RStripCh(sql, ";")

\* The tuple texts of the VALUES list of a statement as SQL reads it: each
\* parenthesis group at depth 0 outside quoted literals ('...' and "..."), from
\* position i; start is where the open group began, quote the open literal's quote
RECURSIVE TupleScan(_, _, _, _, _, _)
TupleScan(s, i, out, start, depth, quote) ==
    IF i > Len(s) THEN out
    ELSE IF quote # ""
    THEN TupleScan(s, i + 1, out, start, depth, IF Ch(s, i) = quote THEN "" ELSE quote)
    ELSE IF Ch(s, i) \in {"'", "\""}
    THEN TupleScan(s, i + 1, out, start, depth, Ch(s, i))
    ELSE IF Ch(s, i) = "("
    THEN TupleScan(s, i + 1, out, IF depth = 0 THEN i ELSE start, depth + 1, quote)
    ELSE IF Ch(s, i) = ")" /\ depth = 1
    THEN TupleScan(s, i + 1, Append(out, SubSeq(s, start, i)), start, 0, quote)
    ELSE IF Ch(s, i) = ")" /\ depth > 1
    THEN TupleScan(s, i + 1, out, start, depth - 1, quote)
    ELSE TupleScan(s, i + 1, out, start, depth, quote)

TuplesIn(sql) == TupleScan(sql, Find(sql, " VALUES ", 1) + 8, <<>>, 0, 0, "")

RECURSIVE TuplesInAll(_)
TuplesInAll(sqls) ==
    IF sqls = <<>> THEN <<>> ELSE TuplesIn(Head(sqls)) \o TuplesInAll(Tail(sqls))

\* ceil(n / b)
CeilDiv(n, b) == (n + b - 1) \div b

\* mysql_auto_importer has handled its last statement, the INSERT of the input:
\* optimized is what optimize_insert returned for it
OptimizedInput ==
    /\ prog = "mysql" /\ pc # "start"
    /\ stmt_idx = Len(statements) /\ stmt_idx > 0
    /\ statements[stmt_idx] = <<"INSERT", StatementOf(input)>>

\* the column names of a column list text
ColumnsOf(cols) == SplitStrip(SubSeq(cols, 2, Len(cols) - 1), ",", 1)

\* the value of a field of a record or document, None when the field is absent
Get(d, k) == IF k \in DOMAIN d THEN d[k] ELSE PyNone

\* the value a simple literal stands for: NULL, a quoted text, an integer
ValueOf(token) ==
    IF token = "NULL" THEN PyNone
    ELSE IF Ch(token, 1) = "'" THEN PyStr(SubSeq(token, 2, Len(token) - 1))
    ELSE PyInt(IntValue(token))

\* a literal that holds no white space and no statement terminator
PlainToken(token) == \A i \in 1..Len(token) : ~IsSpace(Ch(token, i)) /\ Ch(token, i) # ";"

\* a simple literal: an integer, NULL, or a single-quoted text with no quote,
\* comma, parenthesis or semicolon inside
SimpleToken(token) ==
    \/ token = "NULL"
    \/ IsIntLiteral(token)
    \/ /\ Len(token) >= 2 /\ Ch(token, 1) = "'" /\ Ch(token, Len(token)) = "'"
       /\ \A i \in 2..(Len(token) - 1) : Ch(token, i) \notin {"'", "\"", ",", "(", ")", ";"}

\* the file is one well-formed INSERT of simple literals, as many in each tuple as
\* there are columns
SimpleInput ==
    /\ input.pre = ""
    /\ \A i \in 1..Len(input.tuples) :
          /\ Len(input.tuples[i].tokens) = Len(ColumnsOf(input.cols))
          /\ \A j \in 1..Len(input.tuples[i].tokens) : SimpleToken(input.tuples[i].tokens[j])

\* every token of the input is plain
PlainInput ==
    \A i \in 1..Len(input.tuples) :
        \A j \in 1..Len(input.tuples[i].tokens) : PlainToken(input.tuples[i].tokens[j])

\* FileSQLAdapter or sql_smart_importer has handled the whole file
PipelineDone == prog \in {"file", "smart"} /\ pc = "done"

\* what the emitted record i holds for a column: FileSQLAdapter keeps the value
\* under the column's standard field, sql_smart_importer keeps its text under
\* field_<column>
Slot(i, column) ==
    IF prog = "file" THEN Get(all_records[i], standard_field(column))
    ELSE Get(all_records[i][2], "field_" \o NonWordToUnderscore(Lower(column)))

\* what a record holds for a value v
Held(v) == IF prog = "file" \/ v = PyNone THEN v ELSE PyStr(str(v))

\* how many reports of an event the log holds
RECURSIVE Count(_, _)
Count(reports, event) ==
    IF reports = <<>> THEN 0
    ELSE (IF Head(reports).event = event THEN 1 ELSE 0) + Count(Tail(reports), event)

\* the tuples of the input whose token count differs from the column count
Mismatched ==
    {i \in 1..Len(input.tuples) : Len(input.tuples[i].tokens) # Len(ColumnsOf(input.cols))}

(***************************************************************************)
(* The properties                                                          *)
(***************************************************************************)
\* C1: no splitter places a statement boundary at a semicolon inside a quoted
\* literal, whatever follows the semicolon: the INSERT of the input, whose only
\* semicolons outside literals are its terminator, comes out as one statement.
C1_NoBoundaryInsideLiteral ==
    pc # "start" =>
        \E k \in 1..Len(statements) :
            Unterminated(StatementTexts(statements)[k]) = Unterminated(StatementOf(input))

\* C2: every statement optimize_insert returns for an INSERT carries at most
\* BATCH_SIZE tuples, whatever the table identifier and the tuple contents.
C2_AtMostBatchSize ==
    OptimizedInput =>
        \A k \in 1..Len(optimized) : Len(TuplesIn(optimized[k])) <= BATCH_SIZE

\* C3: when optimize_insert splits an INSERT into several statements, the tuple
\* texts of the returned statements, in order, are the original tuple texts.
C3_TuplesPreserved ==
    OptimizedInput /\ Len(optimized) > 1 =>
        TuplesInAll(optimized) = Texts(input.tuples)

\* C4: each batch statement is INSERT INTO <table> (<columns>) VALUES t1,...,tm;
\* with original tuple texts t1..tm, one comma between two of them and none
\* before t1.
C4_BatchForm ==
    OptimizedInput /\ Len(optimized) > 1 =>
        \A k \in 1..Len(optimized) :
            /\ StartsWith(optimized[k], "INSERT INTO ")
            /\ \E lo \in 1..Len(input.tuples) : \E hi \in lo..Len(input.tuples) :
                   EndsWith(optimized[k],
                            " VALUES " \o Join(",", SubSeq(Texts(input.tuples), lo, hi)) \o ";")

\* C5: for an INSERT with N >= 1 tuples optimize_insert returns exactly
\* ceil(N / BATCH_SIZE) statements.
C5_CeilCount ==
    OptimizedInput => Len(optimized) = CeilDiv(Len(input.tuples), BATCH_SIZE)

\* C6: an INSERT with at most BATCH_SIZE tuples comes back from optimize_insert
\* as one statement, the input statement text character for character.
C6_SmallUnchanged ==
    OptimizedInput /\ Len(input.tuples) <= BATCH_SIZE =>
        optimized = <<statements[stmt_idx][2]>>

\* C7: a well-formed INSERT of simple literals yields one statement and k records
\* in textual order, record i holding the values of tuple i under the columns in
\* declared order.
C7_SimpleInsertParsed ==
    PipelineDone /\ SimpleInput =>
        /\ Len(statements) = 1
        /\ Len(all_records) = Len(input.tuples)
        /\ \A i \in 1..Len(all_records) : \A j \in 1..Len(ColumnsOf(input.cols)) :
               Slot(i, ColumnsOf(input.cols)[j]) = Held(ValueOf(input.tuples[i].tokens[j]))

\* C8: a record emitted for n columns holds n values aligned with the columns,
\* whatever the token count of its tuple: column j holds the value of token j, and
\* Null when the tuple has no token j.
C8_ValuesAlignedWithColumns ==
    PipelineDone /\ PlainInput /\ Len(all_records) = Len(input.tuples) =>
        \A i \in 1..Len(all_records) : \A j \in 1..Len(ColumnsOf(input.cols)) :
            Slot(i, ColumnsOf(input.cols)[j])
                = IF j <= Len(input.tuples[i].tokens)
                  THEN Held(ValueOf(input.tuples[i].tokens[j]))
                  ELSE PyNone

\* C9: one ColumnValueMismatch report is produced for each tuple whose token count
\* differs from the column count, none for the others, and the record of every
\* tuple is emitted.
C9_MismatchReported ==
    PipelineDone /\ PlainInput =>
        /\ Len(all_records) = Len(input.tuples)
        /\ Count(log, "column_value_mismatch") = Cardinality(Mismatched)

\* C10: an INSERT that does not match INSERT INTO <identifier> (<columns>) VALUES
\* <rest> is reported, counted as a statement, gives no record and does not stop
\* the statements after it.
C10_UnrecognizedInsertReported ==
    PipelineDone /\ PlainInput /\ input.pre = "INSERT INTO t VALUES (0);\n" =>
        /\ Len(statements) = 2
        /\ Count(log, "cannot_parse") = 1
        /\ Len(all_records) = Len(input.tuples)

\* what the ordered rules of the value coercer give for a token written from the
\* pieces of a: NULL in any letter case; the N' prefix; a text in single quotes
\* (a lone quote begins and ends with one, around nothing); a numeric literal;
\* DATE or TIMESTAMP before a quoted text that is not empty; else the token itself
NullSpellings == {"NULL", "null", "nUlL"}

RuleResult(a) ==
    IF a.pre = "" /\ a.post = "" /\ a.body.text \in NullSpellings THEN PyNone
    ELSE IF a.pre \in {"N'", "n'"} THEN PyStr(a.body.text)
    ELSE IF (a.pre = "'" /\ a.post = "'") \/ TokenCore(a) = "'" THEN PyStr(a.body.text)
    ELSE IF a.pre = "" /\ a.post = "" /\ a.body.num # NotNumber THEN a.body.num
    ELSE IF a.pre \in {"DATE '", "timestamp '"} /\ a.post = "'" /\ a.body.text # ""
         THEN PyStr(a.body.text)
    ELSE PyStr(TokenCore(a))

CleanValueReturned == prog = "unit" /\ call.fn = "clean_value" /\ Returned

C12_NullAndUnicodePrefix ==
    CleanValueReturned =>
        /\ TokenCore(call.arg) \in NullSpellings => call.result = PyNone
        /\ call.arg.pre \in {"N'", "n'"} /\ call.arg.post = "'" =>
               call.result = PyStr(call.arg.body.text)
        /\ call.arg.pre \in {"N'", "n'"} /\ call.arg.post = "" =>
               call.result = PyStr(call.arg.body.text)

\* C12 witness: NULL in mixed case has been coerced to Null, or a prefixed text
\* with no trailing quote to the text after the prefix
C12_MixedCaseNullCoerced ==
    /\ CleanValueReturned
    /\ \/ TokenOf(call.arg) = " nUlL " /\ call.result = PyNone
       \/ TokenOf(call.arg) = "n'abc" /\ call.result = PyStr("abc")

TokenizerReturned == prog = "unit" /\ call.fn = "parse_values_section" /\ Returned

\* the tuples of the call are all of one of the kinds
OfKinds(kinds) == \A i \in 1..Len(call.arg) : call.arg[i].kind \in kinds

\* one record for each tuple, holding one value for each raw token of the tuple
RecordPerTuple ==
    /\ Len(call.result) = Len(call.arg)
    /\ \A i \in 1..Len(call.arg) : Len(call.result[i]) = Len(call.arg[i].tokens)

\* C13: a ')' or a ',' inside a quoted literal of a tuple neither closes the record
\* nor splits a token: there are as many records as tuples, each with as many
\* tokens as its tuple has values.
C13_QuotedDelimitersKept ==
    TokenizerReturned /\ OfKinds({"plain", "quoted"}) => RecordPerTuple

\* C14: a '(' beyond depth 1 inside a tuple is text of the current token and never
\* starts or ends a record: the record closes at the ')' that returns the depth to
\* 0, and the nested text, commas included, is one token.
C14_NestedParenthesesKept ==
    TokenizerReturned /\ OfKinds({"plain", "nested"}) =>
        /\ RecordPerTuple
        /\ \A i \in 1..Len(call.arg) : \A j \in 1..Len(call.arg[i].tokens) :
               call.result[i][j] = clean_value(call.arg[i].tokens[j])

\* the record_index of the emitted record i
RecordIndex(i) ==
    IF prog = "file" THEN all_records[i].record_index.v
    ELSE all_records[i][2].metadata.record_index

\* a token that holds a comment marker
HoldsMarker(token) == Contains(token, "--") \/ Contains(token, "/*")

\* no token of the input holds a comment marker
NoMarkers ==
    \A i \in 1..Len(input.tuples) :
        \A j \in 1..Len(input.tuples[i].tokens) : ~HoldsMarker(input.tuples[i].tokens[j])

\* C15: the records of a tuple list are emitted in the order of the tuples, the
\* record of the tuple at zero-based position p with record_index p: no tuple is
\* skipped or merged and no index shifts.
C15_RecordIndexIsTuplePosition ==
    PipelineDone /\ PlainInput /\ NoMarkers /\ input.cols = "(a,b)" =>
        /\ Len(all_records) = Len(input.tuples)
        /\ \A i \in 1..Len(all_records) :
               /\ RecordIndex(i) = i - 1
               /\ Slot(i, "a") = Held(ValueOf(input.tuples[i].tokens[1]))

\* C16: a comment marker inside a string literal is no comment: the literal comes
\* through comment stripping unchanged, and so does its coerced value.
C16_MarkerInLiteralKept ==
    PipelineDone /\ PlainInput /\ input.cols = "(a,b)" =>
        \A i \in 1..Len(input.tuples) :
            HoldsMarker(input.tuples[i].tokens[1]) =>
                \E r \in 1..Len(all_records) :
                    Slot(r, "a") = Held(ValueOf(input.tuples[i].tokens[1]))

\* C17: two runs on the same file give the same records, field for field,
\* whenever each of them happens.
C17_SameRecordsOnRerun ==
    prog \in {"file", "smart"} /\ pc = "done" /\ first_run.done =>
        all_records = first_run.records

ReadReturned == call.fn = "robust_read_text" /\ Returned

\* the encodings of the list that decode the whole buffer
Decoding(b) == {k \in 1..Len(encodings) : decode(b, encodings[k], "strict").ok}

\* the first of them
FirstDecoding(b) == CHOOSE k \in Decoding(b) : \A m \in Decoding(b) : k <= m

\* the text under the first encoding that decodes, without carriage returns
FirstDecoded(b) == StripCR(decode(b, encodings[FirstDecoding(b)], "strict").text)

\* C18 as stated: the text is the decoding under the first encoding of the list
\* that decodes the buffer and, when none does, the UTF-8 decoding with each
\* invalid sequence replaced by U+FFFD.
C18_FallbackReplaces ==
    ReadReturned =>
        call.result = IF Decoding(call.arg) # {} THEN FirstDecoded(call.arg)
                      ELSE StripCR(decode(call.arg, "utf-8", "replace").text)

\* C18: the text is the decoding under the first encoding of the list that
\* decodes the buffer and, when none does, the UTF-8 decoding with the invalid
\* sequences left out: what "replace" gives, less every U+FFFD it wrote (no
\* buffer read here holds a well-formed U+FFFD).  In both cases the carriage
\* returns are removed, and a text is returned for every buffer.
C18_FallbackDropsInvalid ==
    ReadReturned =>
        /\ call.result \in Seq(0..1114111)
        /\ call.result =
               IF Decoding(call.arg) # {} THEN FirstDecoded(call.arg)
               ELSE SelectSeq(decode(call.arg, "utf-8", "replace").text,
                              LAMBDA c : c # REPLACEMENT /\ c # 13)

\* robust_read_text returned for a buffer none of the encodings decodes, with a
\* byte dropped between two letters that are kept
C18_InvalidByteDropped ==
    /\ ReadReturned
    /\ call.arg = <<65, 255, 65>>
    /\ Decoding(call.arg) = {}
    /\ call.result = <<65, 65>>

\* a table name without the back-quotes around it
Bare(table) ==
    IF StartsWith(table, BackQuote) THEN SubSeq(table, 2, Len(table) - 1) ELSE table

\* the directive the two parsers return holds the table name as written and the
\* columns in order, trimmed
DirectiveOf(a, parsed) ==
    /\ parsed.ok
    /\ parsed.table_name = a.table
    /\ parsed.columns = <<"a", "b">>
    /\ Len(parsed.records) = BATCH_SIZE + 1

\* the statement is recognised and written again in batches that name the table
BatchesOf(a, sqls) ==
    /\ Len(sqls) = 2
    /\ \A k \in 1..Len(sqls) :
           \E sep \in {" ", "("} :
               StartsWith(sqls[k], "INSERT INTO " \o BackQuote \o Bare(a.table) \o BackQuote \o sep)
               \/ StartsWith(Upper(sqls[k]), "INSERT INTO " \o Upper(a.table) \o sep)

\* C19: each of the three extractors matches the statement whatever the letter
\* case of its keywords, takes the whole run after INTO as the table name (a
\* schema-qualified name included) and, for the two parsers, returns the columns
\* in order, trimmed.
C19_DirectiveExtracted ==
    call.fn \in Extractors /\ Returned =>
        IF call.fn = "optimize_insert" THEN BatchesOf(call.arg, call.result)
        ELSE DirectiveOf(call.arg, call.result)

\* the same for the two parsers alone (holds: the defect is in optimize_insert)
ParsersExtract ==
    call.fn \in Extractors \ {"optimize_insert"} /\ Returned =>
        DirectiveOf(call.arg, call.result)

\* the same for optimize_insert on names without a schema
PlainNamesBatched ==
    call.fn = "optimize_insert" /\ Returned /\ call.arg.table # "dbo.t" =>
        BatchesOf(call.arg, call.result)

ParseFileReturned == call.fn = "parse_file" /\ Returned

\* the statements of the file: the one before the last, if any, and the last
StatementCount(a) == IF a.head = "" THEN 1 ELSE 2

\* the statements executed for the last statement of the file
ExecutedForLast(a, result) ==
    Len(result.executed) - (StatementCount(a) - 1)

\* C20: a last statement without its semicolon is yielded as a statement of its
\* own, with the type a terminated statement of the same text gets, and is
\* processed by that type: an INSERT of more tuples than a batch holds is
\* executed in batches.
C20_TrailingSpanClassified ==
    ParseFileReturned =>
        /\ Len(call.result.yielded) = StatementCount(call.arg)
        /\ call.result.yielded[StatementCount(call.arg)][1] = StatementType(call.arg.last)
        /\ ExecutedForLast(call.arg, call.result)
               = Len(optimize_insert(call.arg.last \o ";"))

\* the same for the files whose last statement is terminated (holds)
TerminatedClassified ==
    ParseFileReturned /\ call.arg.end \in {";", ";\n"} =>
        /\ Len(call.result.yielded) = StatementCount(call.arg)
        /\ call.result.yielded[StatementCount(call.arg)][1] = StatementType(call.arg.last)
        /\ ExecutedForLast(call.arg, call.result)
               = Len(optimize_insert(call.arg.last \o ";"))

SplitReturned == call.fn \in Splitters /\ Returned

UnclosedStatement == "INSERT INTO t(a,b) VALUES (1,'a"
DoubledStatement == "INSERT INTO t(a,b) VALUES (1,'it''s')"
ClosedStatement == "INSERT INTO t(a,b) VALUES (1,'x')"

\* the statements that precede the statement of a file given to a splitter
LeadCount(a) == IF a.lead = "SELECT 1;\n" THEN 1 ELSE 0

\* C21: when the quote a statement opens is never closed, the splitter returns
\* everything from the start of that statement to the end of the input as one
\* last statement: a semicolon after the quote splits nothing.
C21_UnclosedQuoteOneStatement ==
    SplitReturned /\ call.arg.stmt = UnclosedStatement =>
        /\ Len(call.result) = LeadCount(call.arg) + 1
        /\ Unterminated(call.result[Len(call.result)])
               = Unterminated(Strip(call.arg.stmt \o call.arg.tail))

\* the same for parse_file alone (holds: it keeps in_string from line to line)
UnclosedQuoteOneSpan ==
    call.fn = "parse_file_spans" /\ Returned /\ call.arg.stmt = UnclosedStatement =>
        /\ Len(call.result) = LeadCount(call.arg) + 1
        /\ call.result[Len(call.result)] = Strip(call.arg.stmt \o call.arg.tail)

\* C23: a statement parse_file yields is the text of its span, trimmed: every
\* character of the span is in it, both quotes of a doubled quote included.
C23_SpanTextKept ==
    call.fn = "parse_file_spans" /\ Returned /\ call.arg.stmt # UnclosedStatement
    /\ call.arg.tail # "" =>
        /\ Len(call.result) >= LeadCount(call.arg) + 1
        /\ call.result[LeadCount(call.arg) + 1] = call.arg.stmt \o ";"

\* the same for the statements without a doubled quote (holds)
PlainSpanTextKept ==
    call.fn = "parse_file_spans" /\ Returned /\ call.arg.stmt = ClosedStatement
    /\ call.arg.tail # "" =>
        /\ Len(call.result) >= LeadCount(call.arg) + 1
        /\ call.result[LeadCount(call.arg) + 1] = call.arg.stmt \o ";"

\* a token that is a single-quoted text
QuotedToken(token) ==
    Len(token) >= 2 /\ Ch(token, 1) = "'" /\ Ch(token, Len(token)) = "'"

\* no token of the input holds a statement terminator, a comment marker or a
\* parenthesis
NoDelimiters ==
    /\ NoMarkers
    /\ \A i \in 1..Len(input.tuples) :
           \A j \in 1..Len(input.tuples[i].tokens) :
               \A c \in {";", "(", ")"} : ~Contains(input.tuples[i].tokens[j], c)

\* C22: the text a record holds for a single-quoted token is what stands between
\* the outer quotes in the file, character for character: runs of white space and
\* line breaks inside the literal are kept.
C22_InnerTextUnchanged ==
    PipelineDone /\ NoDelimiters /\ input.pre = "" /\ input.cols = "(a,b)" =>
        \A i \in 1..Len(input.tuples) :
            QuotedToken(input.tuples[i].tokens[1]) =>
                /\ i <= Len(all_records)
                /\ Slot(i, "a") = Held(PyStr(SubSeq(input.tuples[i].tokens[1], 2,
                                                    Len(input.tuples[i].tokens[1]) - 1)))

\* C29: a source statement is applied as a whole: when it is counted as failed
\* none of its sub-batches stays committed, when it is counted as succeeded all
\* of them are.
C29_StatementAtomic ==
    [][prog = "mysql" /\ stmt_idx' = stmt_idx + 1 =>
           /\ progress'.error_count > progress.error_count => committed' = committed
           /\ progress'.success_count > progress.success_count =>
                  Len(committed') > Len(committed)]_vars

\* every token of the input is a simple literal
SimpleTokens ==
    \A i \in 1..Len(input.tuples) :
        \A j \in 1..Len(input.tuples[i].tokens) : SimpleToken(input.tuples[i].tokens[j])

\* C24: a comment line before an INSERT, with no semicolon between them, takes
\* nothing of the INSERT away: the statement is parsed and its records are emitted.
C24_InsertAfterCommentLine ==
    PipelineDone /\ input.pre = "-- c\n" /\ input.cols = "(a,b)" /\ SimpleTokens
    /\ PlainInput /\ NoMarkers =>
        /\ Len(all_records) = Len(input.tuples)
        /\ \A i \in 1..Len(all_records) :
               Slot(i, "a") = Held(ValueOf(input.tuples[i].tokens[1]))

\* the same for FileSQLAdapter alone (holds)
FileInsertAfterCommentLine ==
    prog = "file" /\ pc = "done" /\ input.pre = "-- c\n" /\ input.cols = "(a,b)"
    /\ SimpleTokens /\ PlainInput /\ NoMarkers =>
        /\ Len(all_records) = Len(input.tuples)
        /\ \A i \in 1..Len(all_records) :
               Slot(i, "a") = Held(ValueOf(input.tuples[i].tokens[1]))

\* the primary key / document id of the emitted record i
RecordId(i) == IF prog = "file" THEN all_records[i].pk ELSE all_records[i][1]

\* C26: the records emitted for one file have distinct ids, the records of two
\* INSERT statements into the same table included.
C26_DistinctIds ==
    PipelineDone =>
        \A i, j \in 1..Len(all_records) : i # j => RecordId(i) # RecordId(j)

\* the same for the files with one INSERT (holds)
OneInsertDistinctIds ==
    PipelineDone /\ input.pre # "INSERT INTO t(a,b) VALUES (9,'w');\n" =>
        \A i, j \in 1..Len(all_records) : i # j => RecordId(i) # RecordId(j)

\* the bookkeeping fields of a record of FileSQLAdapter for tuple position idx
Bookkeeping(record, idx) ==
    /\ record.table_name = PyStr(input.table)
    /\ record.source_file = PyStr(FileName)
    /\ record.record_index = PyInt(idx)
    /\ record.pk = PyStr(sha256(Join("::", <<FileName, input.table, IntToStr(idx)>>)))
    /\ \E t \in 0..now : record.updated_at = PyStr(isoformat(t))

\* C27: the bookkeeping fields of every record of FileSQLAdapter hold what was
\* computed from the file, the table and the tuple position, whatever the columns
\* are called, and no two columns of the directive write to one field.
C27_BookkeepingKept ==
    prog = "file" /\ pc = "done" =>
        /\ \A i \in 1..Len(all_records) :
               \E idx \in 0..Len(all_records) : Bookkeeping(all_records[i], idx)
        /\ \A c, d \in 1..Len(ColumnsOf(input.cols)) :
               c # d => standard_field(ColumnsOf(input.cols)[c])
                            # standard_field(ColumnsOf(input.cols)[d])

\* the same for the column list (a,b) (holds)
PlainColumnsBookkeepingKept ==
    prog = "file" /\ pc = "done" /\ input.cols = "(a,b)" =>
        \A i \in 1..Len(all_records) :
            \E idx \in 0..Len(all_records) : Bookkeeping(all_records[i], idx)

\* C25: once more than MAX_ERRORS statements of the file have failed, no further
\* statement of the file is given to cursor.execute, in whatever group it lies.
C25_StopsAfterTooManyErrors ==
    [][batch.total > 0 /\ batch.progress.error_count > MAX_ERRORS =>
           batch'.executed = batch.executed]_vars

\* the same for the failures of one call of execute_sql_batch (holds: a call
\* handles at most GROUP_SIZE statements)
StopsWithinCall ==
    batch.total > 0 => batch.error_count <= MAX_ERRORS

\* the file moved to .done in a step of scan_and_process
MovedToDone == scan'.done[Len(scan'.done)]

\* C28: a file is moved to .done only when its content has been processed with
\* result success, in this scan or an earlier one: the state file then holds
\* success for that file and hash.
C28_DoneOnlyAfterSuccess ==
    []["done" \in DOMAIN scan /\ Len(scan'.done) > Len(scan.done) =>
           /\ MovedToDone.name \in DOMAIN scan'.state
           /\ scan'.state[MovedToDone.name].hash = MovedToDone.hash
           /\ scan'.state[MovedToDone.name].success]_vars

\* the same for the files processed in the step (holds: the defect is in the
\* files skipped)
ProcessedDoneOnlyAfterSuccess ==
    []["done" \in DOMAIN scan /\ Len(scan'.done) > Len(scan.done)
       /\ scan'.state # scan.state =>
           /\ scan'.state[MovedToDone.name].hash = MovedToDone.hash
           /\ scan'.state[MovedToDone.name].success]_vars

\* the idle connections, as a set
Idle == {pool.connections[i] : i \in 1..Len(pool.connections)}

\* C30: after any sequence of get_connection and return_connection calls no
\* connection is both idle and in use, no connection is twice in the idle
\* list, and idle plus in-use connections are at most the pool size.
C30_PoolConsistent ==
    pool.size > 0 =>
        /\ Idle \cap pool.used_connections = {}
        /\ Cardinality(Idle) = Len(pool.connections)
        /\ Len(pool.connections) + Cardinality(pool.used_connections) <= pool.size

\* every kind of failure has happened, a connection was returned twice, and
\* the pool holds an idle and an in-use connection
C30_AllFailuresSeen ==
    /\ pool.size > 0
    /\ pool.seen = PoolCases
    /\ pool.connections # <<>>
    /\ pool.used_connections # {}

====
